---- MODULE Spec2Model ----
(***************************************************************************)
(* The macro expansion engine of the text macro preprocessor, in its two   *)
(* versions:                                                               *)
(*   - the sink-based engine,   src/submission2/proj1.c (lines 1-720),     *)
(*     which threads an output callback through every recursive call and   *)
(*     leaves the process with exit(EXIT_FAILURE) on the first error;      *)
(*   - the global-buffer engine, src/submission/proj1.c (lines 1-758),     *)
(*     which appends to one global buffer, saves and restores it around    *)
(*     expand_string_fully, and leaves the process through raise_error.    *)
(* Definitions of the global-buffer engine carry the prefix G_ where the   *)
(* two programs use the same name.                                         *)
(*                                                                         *)
(* A text is a sequence of one-character strings; a C string position is   *)
(* an index 1..Len+1, the last one standing for the terminating NUL.       *)
(* One step of the model is one iteration of the scanning loop of          *)
(* expand_text_impl (one construct), or one return to a caller.            *)
(***************************************************************************)
EXTENDS Integers, Sequences, FiniteSets, TLC

VARIABLES
    engine,           \* "sink" (submission2) or "global" (submission)
    input,            \* the comment-stripped text handed to parse_and_expand
    stack,            \* the C call stack: expand_text_impl and capture frames
    table,            \* MacroTable: the linked list, head first
    out,              \* what standard output has received
    err,              \* the diagnostics written to the error stream
    status,           \* "running" | "expanded" | "done" | "exited"
    g_outputBuffer,   \* global engine: the current global output buffer
    g_errorOccurred,  \* global engine: the error flag
    last              \* history: the construct the last step handled

vars == << engine, input, stack, table, out, err, status,
           g_outputBuffer, g_errorOccurred, last >>

----------------------------------------------------------------------------
(* Characters                                                              *)

Chars(s) == [i \in 1..Len(s) |-> SubSeq(s, i, i)]

\* The terminating '\0' of a C string, read one past the last character.
NUL == "NUL"

BS == "\\"

At(t, p) == IF p >= 1 /\ p <= Len(t) THEN t[p] ELSE NUL

AlnumChars ==
    { Chars("abcdefghijklmnopqrstuvwxyzABCDEFGHIJKLMNOPQRSTUVWXYZ0123456789")[i]
        : i \in 1..62 }

isalnum(c) == c \in AlnumChars

isspace(c) == c \in {" ", "\t", "\n", "\r"}

\* The escape alphabet tested at submission2/proj1.c:461 and 626.
\* a plausible slip: the percent sign is missing from the escape alphabet
isspecial_no_percent(c) == c \in {BS, "{", "}", "#"}

isspecial(c) == c \in {BS, "{", "}", "#", "%"}

\* The text from position p to the end: the C pointer p read as a string.
Rest(t, p) == SubSeq(t, p, Len(t))

RECURSIVE skip_spaces(_, _)
skip_spaces(t, p) == IF isspace(At(t, p)) THEN skip_spaces(t, p + 1) ELSE p

\* a plausible slip: only the first character of the name is tested
AllAlnumFirstOnly(t) == t = << >> \/ isalnum(t[1])

\* for (c = arg; *c; c++) if (!isalnum(*c)) ...
AllAlnum(t) == \A i \in 1..Len(t) : isalnum(t[i])

----------------------------------------------------------------------------
(* Macro table                                                             *)

BuiltinNames ==
    { Chars("def"), Chars("undef"), Chars("if"), Chars("ifdef"),
      Chars("include"), Chars("expandafter") }

\* a plausible slip: one name is missing from the list of builtins
is_builtin_without_if(name) == name \in BuiltinNames \ { Chars("if") }

is_builtin(name) == name \in BuiltinNames

Bound(tbl, name) == \E i \in 1..Len(tbl) : tbl[i].name = name

\* The first entry of the list with that name (the walk from head).
FirstIndex(tbl, name) ==
    CHOOSE i \in 1..Len(tbl) :
        /\ tbl[i].name = name
        /\ \A j \in 1..(i - 1) : tbl[j].name # name

\* a plausible slip: a name that is not in the list reads as an empty template
lookup_macro_or_empty(tbl, name) ==
    IF Bound(tbl, name)
    THEN [found |-> TRUE, value |-> tbl[FirstIndex(tbl, name)].value]
    ELSE [found |-> TRUE, value |-> << >>]

lookup_macro(tbl, name) ==
    IF Bound(tbl, name)
    THEN [found |-> TRUE, value |-> tbl[FirstIndex(tbl, name)].value]
    ELSE [found |-> FALSE, value |-> << >>]

\* a plausible slip: the walk that looks for the name is left out
define_macro_nocheck(tbl, name, value) ==
    [error |-> "", table |-> << [name |-> name, value |-> value] >> \o tbl]

define_macro(tbl, name, value) ==
    IF Bound(tbl, name)
    THEN [error |-> "DuplicateMacro", table |-> tbl]
    ELSE [error |-> "", table |-> << [name |-> name, value |-> value] >> \o tbl]

\* a plausible slip: a second \def of a name replaces its binding
G_define_macro_replace(tbl, name, value) ==
    IF is_builtin(name)
    THEN [error |-> "", table |-> tbl]
    ELSE IF Bound(tbl, name)
    THEN [error |-> "",
          table |-> [i \in 1..Len(tbl) |->
                        IF tbl[i].name = name
                        THEN [name |-> name, value |-> value] ELSE tbl[i]]]
    ELSE [error |-> "", table |-> << [name |-> name, value |-> value] >> \o tbl]

\* a plausible slip: the other policy, a reserved name is a hard error
G_define_macro_reserved(tbl, name, value) ==
    IF is_builtin(name)
    THEN [error |-> "InvalidMacroName", table |-> tbl]
    ELSE IF Bound(tbl, name)
    THEN [error |-> "DuplicateMacro", table |-> tbl]
    ELSE [error |-> "", table |-> << [name |-> name, value |-> value] >> \o tbl]

G_define_macro(tbl, name, value) ==
    IF is_builtin(name)
    THEN [error |-> "", table |-> tbl]
    ELSE IF Bound(tbl, name)
    THEN [error |-> "DuplicateMacro", table |-> tbl]
    ELSE [error |-> "", table |-> << [name |-> name, value |-> value] >> \o tbl]

\* a plausible slip: the head is unlinked whichever entry matched
undef_macro_head(tbl, name) ==
    IF Bound(tbl, name)
    THEN [error |-> "", table |-> Tail(tbl)]
    ELSE [error |-> "UndefinedMacro", table |-> tbl]

undef_macro(tbl, name) ==
    IF Bound(tbl, name)
    THEN LET i == FirstIndex(tbl, name)
         IN  [error |-> "",
              table |-> SubSeq(tbl, 1, i - 1) \o SubSeq(tbl, i + 1, Len(tbl))]
    ELSE [error |-> "UndefinedMacro", table |-> tbl]

free_macro_table(tbl) == << >>

----------------------------------------------------------------------------
(* Argument reader                                                         *)

\* a plausible slip: the end of the text closes the open braces
RECURSIVE readArgLoopEndCloses(_, _, _, _, _)
readArgLoopEndCloses(t, p, braceDepth, escaped, buf) ==
    IF At(t, p) = NUL \/ braceDepth <= 0
    THEN [p |-> p, braceDepth |-> 0, buf |-> buf]
    ELSE LET c == t[p] IN
         IF ~escaped
         THEN IF c = BS
              THEN readArgLoopEndCloses(t, p + 1, braceDepth, TRUE, Append(buf, c))
              ELSE IF c = "{"
              THEN readArgLoopEndCloses(t, p + 1, braceDepth + 1, FALSE, Append(buf, c))
              ELSE IF c = "}"
              THEN readArgLoopEndCloses(t, p + 1, braceDepth - 1, FALSE,
                                        IF braceDepth - 1 > 0 THEN Append(buf, c) ELSE buf)
              ELSE readArgLoopEndCloses(t, p + 1, braceDepth, FALSE, Append(buf, c))
         ELSE readArgLoopEndCloses(t, p + 1, braceDepth, FALSE, Append(buf, c))

\* The scanning loop of readArg (submission2): the `escaped' flag.
RECURSIVE readArgLoop(_, _, _, _, _)
readArgLoop(t, p, braceDepth, escaped, buf) ==
    IF At(t, p) = NUL \/ braceDepth <= 0
    THEN [p |-> p, braceDepth |-> braceDepth, buf |-> buf]
    ELSE LET c == t[p] IN
         IF ~escaped
         THEN IF c = BS
              THEN readArgLoop(t, p + 1, braceDepth, TRUE, Append(buf, c))
              ELSE IF c = "{"
              THEN readArgLoop(t, p + 1, braceDepth + 1, FALSE, Append(buf, c))
              ELSE IF c = "}"
              THEN readArgLoop(t, p + 1, braceDepth - 1, FALSE,
                               IF braceDepth - 1 > 0 THEN Append(buf, c) ELSE buf)
              ELSE readArgLoop(t, p + 1, braceDepth, FALSE, Append(buf, c))
         ELSE readArgLoop(t, p + 1, braceDepth, FALSE, Append(buf, c))

\* readArg of submission2: res is "ok", "null" (no opening brace: the C
\* function returns NULL, the cursor stays after the skipped whitespace) or
\* "unbalanced" (the function prints the diagnostic and exits).
readArg(t, p0) ==
    LET p == skip_spaces(t, p0) IN
    IF At(t, p) # "{"
    THEN [res |-> "null", arg |-> << >>, p |-> p]
    ELSE LET r == readArgLoop(t, p + 1, 1, FALSE, << >>) IN
         IF r.braceDepth # 0
         THEN [res |-> "unbalanced", arg |-> << >>, p |-> r.p]
         ELSE [res |-> "ok", arg |-> r.buf, p |-> r.p]

\* a plausible slip: any run of backslashes escapes the character after it
RECURSIVE G_readArgLoopAnyRun(_, _, _, _, _)
G_readArgLoopAnyRun(t, p, braceDepth, backslashCount, buf) ==
    IF At(t, p) = NUL \/ braceDepth <= 0
    THEN [p |-> p, braceDepth |-> braceDepth, buf |-> buf]
    ELSE LET c == t[p] IN
         IF c = BS
         THEN G_readArgLoopAnyRun(t, p + 1, braceDepth, backslashCount + 1, Append(buf, c))
         ELSE LET isEscaped == (backslashCount > 0)
                  depth == IF c = "{" /\ ~isEscaped THEN braceDepth + 1
                           ELSE IF c = "}" /\ ~isEscaped THEN braceDepth - 1
                           ELSE braceDepth
              IN  IF depth = 0
                  THEN [p |-> p + 1, braceDepth |-> 0, buf |-> buf]
                  ELSE G_readArgLoopAnyRun(t, p + 1, depth, 0, Append(buf, c))

\* The scanning loop of readArg (submission): the backslash parity counter.
RECURSIVE G_readArgLoop(_, _, _, _, _)
G_readArgLoop(t, p, braceDepth, backslashCount, buf) ==
    IF At(t, p) = NUL \/ braceDepth <= 0
    THEN [p |-> p, braceDepth |-> braceDepth, buf |-> buf]
    ELSE LET c == t[p] IN
         IF c = BS
         THEN G_readArgLoop(t, p + 1, braceDepth, backslashCount + 1, Append(buf, c))
         ELSE LET isEscaped == (backslashCount % 2 = 1)
                  depth == IF c = "{" /\ ~isEscaped THEN braceDepth + 1
                           ELSE IF c = "}" /\ ~isEscaped THEN braceDepth - 1
                           ELSE braceDepth
              IN  IF depth = 0
                  THEN [p |-> p + 1, braceDepth |-> 0, buf |-> buf]
                  ELSE G_readArgLoop(t, p + 1, depth, 0, Append(buf, c))

\* readArg of submission: a missing brace raises the error (res "missing").
G_readArg(t, p0) ==
    LET p == skip_spaces(t, p0) IN
    IF At(t, p) # "{"
    THEN [res |-> "missing", arg |-> << >>, p |-> p]
    ELSE LET r == G_readArgLoop(t, p + 1, 1, 0, << >>) IN
         IF r.braceDepth # 0
         THEN [res |-> "unbalanced", arg |-> << >>, p |-> r.p]
         ELSE [res |-> "ok", arg |-> r.buf, p |-> r.p]

\* readMacroName: the maximal alphanumeric run starting at p.
RECURSIVE NameEnd(_, _)
NameEnd(t, p) == IF isalnum(At(t, p)) THEN NameEnd(t, p + 1) ELSE p

readMacroName(t, p) == [name |-> SubSeq(t, p, NameEnd(t, p) - 1), p |-> NameEnd(t, p)]

----------------------------------------------------------------------------
(* Template instantiation: the loop over macroVal in the user macro branch *)

RECURSIVE InstLoop(_, _, _, _)
InstLoop(m, i, arg, outBuf) ==
    IF At(m, i) = NUL THEN outBuf
    ELSE IF m[i] = BS
    THEN LET next == At(m, i + 1) IN
         IF next = NUL THEN InstLoop(m, i + 1, arg, Append(outBuf, BS))
         ELSE IF isspecial(next) THEN InstLoop(m, i + 2, arg, Append(outBuf, next))
         ELSE InstLoop(m, i + 2, arg, outBuf \o << BS, next >>)
    ELSE IF m[i] = "#" THEN InstLoop(m, i + 1, arg, outBuf \o arg)
    ELSE InstLoop(m, i + 1, arg, Append(outBuf, m[i]))

\* a plausible slip: the substituted argument is scanned again for # and \
RECURSIVE InstLoopResubst(_, _, _, _)
InstLoopResubst(m, i, arg, outBuf) ==
    IF At(m, i) = NUL THEN outBuf
    ELSE IF m[i] = BS
    THEN LET next == At(m, i + 1) IN
         IF next = NUL THEN InstLoopResubst(m, i + 1, arg, Append(outBuf, BS))
         ELSE IF isspecial(next) THEN InstLoopResubst(m, i + 2, arg, Append(outBuf, next))
         ELSE InstLoopResubst(m, i + 2, arg, outBuf \o << BS, next >>)
    ELSE IF m[i] = "#"
    THEN InstLoopResubst(m, i + 1, arg, outBuf \o InstLoop(arg, 1, << >>, << >>))
    ELSE InstLoopResubst(m, i + 1, arg, Append(outBuf, m[i]))

\* a plausible slip: only the first # of the template is substituted
RECURSIVE InstLoopOnce(_, _, _, _, _)
InstLoopOnce(m, i, arg, outBuf, done) ==
    IF At(m, i) = NUL THEN outBuf
    ELSE IF m[i] = BS
    THEN LET next == At(m, i + 1) IN
         IF next = NUL THEN InstLoopOnce(m, i + 1, arg, Append(outBuf, BS), done)
         ELSE IF isspecial(next) THEN InstLoopOnce(m, i + 2, arg, Append(outBuf, next), done)
         ELSE InstLoopOnce(m, i + 2, arg, outBuf \o << BS, next >>, done)
    ELSE IF m[i] = "#"
    THEN InstLoopOnce(m, i + 1, arg, IF done THEN outBuf ELSE outBuf \o arg, TRUE)
    ELSE InstLoopOnce(m, i + 1, arg, Append(outBuf, m[i]), done)

InstantiateFirstHash(macroVal, arg) == InstLoopOnce(macroVal, 1, arg, << >>, FALSE)

InstantiateResubst(macroVal, arg) == InstLoopResubst(macroVal, 1, arg, << >>)

Instantiate(macroVal, arg) == InstLoop(macroVal, 1, arg, << >>)

----------------------------------------------------------------------------
(* Input and files                                                         *)

\* Comment stripping of read_all_input_and_remove_comments and
\* read_included_file: a % whose previous kept character is not a backslash
\* starts a comment that runs to the end of the line; the blanks and tabs
\* that open the next line go with it.
RECURSIVE SkipToNewline(_, _)
SkipToNewline(raw, i) ==
    IF At(raw, i) = NUL \/ raw[i] = "\n" THEN i ELSE SkipToNewline(raw, i + 1)

RECURSIVE SkipBlanks(_, _)
SkipBlanks(raw, i) ==
    IF At(raw, i) \in {" ", "\t"} THEN SkipBlanks(raw, i + 1) ELSE i

\* The loop copies raw[i..] into buffer up to the next '%' whose preceding
\* character (prev for the first one) is not a backslash, drops the comment,
\* the newline and the blanks after it, and goes on with prev reset.
RECURSIVE StripLoop(_, _, _, _)
StripLoop(raw, i, prev, buffer) ==
    LET marks == { k \in i..Len(raw) :
                     raw[k] = "%" /\ (IF k = i THEN prev ELSE raw[k - 1]) # BS }
    IN  IF marks = {} THEN buffer \o SubSeq(raw, i, Len(raw))
        ELSE LET k == CHOOSE m \in marks : \A n \in marks : m <= n
                 j == SkipToNewline(raw, k + 1)
                 copied == buffer \o SubSeq(raw, i, k - 1)
             IN  IF At(raw, j) = NUL THEN copied
                 ELSE StripLoop(raw, SkipBlanks(raw, j + 1), NUL, copied)

StripComments(raw) == StripLoop(raw, 1, NUL, << >>)

\* The files \include can open: path -> raw content.  Any other path fails
\* in fopen.
FilePaths == { Chars("f"), Chars("g") }

FileContent(path) ==
    IF path = Chars("f") THEN Chars("\\def{A}{inc}% defines A\n  ")
    ELSE Chars("<\\ifdef{A}{\\A{}}{none}>")

\* a plausible slip: the included file is handed over with its comments
read_included_file_raw(path) ==
    IF path \in FilePaths
    THEN [error |-> "", text |-> FileContent(path)]
    ELSE [error |-> "FileNotFound", text |-> << >>]

read_included_file(path) ==
    IF path \in FilePaths
    THEN [error |-> "", text |-> StripComments(FileContent(path))]
    ELSE [error |-> "FileNotFound", text |-> << >>]

\* The pieces the raw inputs are built from.
Corpus ==
    << "\\def{A}{hello-#-world}",
       "\\A{X}",
       "\\def{A}{1}",
       "\\def{A}{2}",
       "\\def{B}{b}\\def{A}{2}",
       "\\def{B}{\\#\\\\#\\+#}",
       "\\B{-#}",
       "\\undef{A}",
       "\\undef{B}ok",
       "\\def{if}{x}",
       "\\def{C}xyz",
       "\\A bar",
       "\\foo bar",
       "ab\\undef{Z}",
       "\\expandafter{\\B{}}{\\def{B}{y}}",
       "\\expandafter{\\\\\\\\A{}}{.}",
       "\\expandafter{\\A}{{\\A{}}}",
       "\\if{}{T}{E}",
       "\\if{x}{T}{E}",
       "\\if{\\U{}}{\\def{A}{t}}{E}\\if{x}{T}",
       "\\ifdef{A}{yes}{no}",
       "\\ifdef{B}{yes}{no}",
       "\\ifdef{a-b}{y}{n}",
       "\\def{}{v}",
       "\\def{a-b}{v}",
       "\\def{D}{\\E{#}}\\def{E}{e#}\\D{X}",
       "\\Unknown{x}",
       "\\def{U}{u}\\undef{U}\\U{\\B{}}",
       "\\def{A}{\\A{}}\\A{}",
       "\\include{f}",
       "\\include{g}\\include{h}",
       "\\{\\%\\+\\",
       "\\def{A}{}",
       "\\def{A}{##}",
       "\\A{\\def{B}{1}}",
       "\\def{def}{x}",
       "\\def{undef}{x}",
       "\\def{ifdef}{x}",
       "\\def{include}{x}",
       "\\def{expandafter}{x}",
       "\\\\A{X}\\}\\#",
       "\\def{A}{\\\\}",
       "\\A{}ok",
       "\\if{}{\\def{B}{t}\\U{}\\def{-}{}\\undef}{E}",
       "\\ifdef{Q}{\\undef{Q}\\def{Q}}{n}",
       "\\if{x}{T}{\\U{}\\def{A}{e}}",
       "ab\\expandafter{<}{c\\expandafter{d}{e}}!",
       "\\def{A}{x" >>

MaxParts == 2

PartSeqs == UNION { [1..n -> 1..Len(Corpus)] : n \in 0..MaxParts }

RECURSIVE Concat(_)
Concat(parts) ==
    IF parts = << >> THEN << >>
    ELSE Chars(Corpus[Head(parts)]) \o Concat(Tail(parts))

Text(s) == Chars(s)

----------------------------------------------------------------------------
(* State                                                                   *)

Frame0(fn, text, sink, role, snap) ==
    [ fn       |-> fn,       \* the C function the frame belongs to
      input    |-> text,     \* expand_text_impl: the text being scanned
      p        |-> 1,        \* expand_text_impl: the cursor
      pc       |-> "loop",   \* where the function stands
      sink     |-> sink,     \* sink engine: 0 = out_char_stdout, k = the
                             \* OutputBuffer owned by frame k
      ob       |-> << >>,    \* capture frame: its buffer (sink engine) or the
                             \* saved outer buffer (global engine)
      before   |-> << >>,    \* expandafter: beforeArg
      after    |-> << >>,    \* expandafter: afterArg, then expandedAfter
      oldError |-> FALSE,    \* expand_string_fully: saved g_errorOccurred
      role     |-> role,     \* history: why the frame was called
      snap     |-> snap ]    \* history: output and table when it was called

Top == stack[Len(stack)]

\* The content of the sink the running frame writes to.
CurOut ==
    IF stack = << >> THEN << >>
    ELSE IF engine = "global" THEN g_outputBuffer
    ELSE IF Top.sink = 0 THEN out
    ELSE stack[Top.sink].ob

\* Everything that holds output.
Output ==
    [ stdout |-> out, g |-> g_outputBuffer,
      bufs |-> [i \in 1..Len(stack) |-> stack[i].ob] ]

\* A call made in the current state.
Frame(fn, text, sink, role) ==
    Frame0(fn, text, sink, role, [output |-> Output, table |-> table])

Last(op, name, args, res) ==
    [ op |-> op, name |-> name, args |-> args, res |-> res,
      table |-> table, output |-> Output, cur |-> CurOut,
      p |-> IF stack = << >> THEN 0 ELSE Top.p,
      depth |-> Len(stack) ]

Init ==
    /\ engine \in {"sink", "global"}
    /\ \E parts \in PartSeqs : input = StripComments(Concat(parts))
    /\ stack = << Frame0("expand_text_impl", input, 0, "top",
                          [ output |-> [stdout |-> << >>, g |-> << >>, bufs |-> << >>],
                            table |-> << >> ]) >>
    /\ table = << >>
    /\ out = << >>
    /\ err = << >>
    /\ status = "running"
    /\ g_outputBuffer = << >>
    /\ g_errorOccurred = FALSE
    /\ last = [ op |-> "start", name |-> << >>, args |-> << >>, res |-> << >>,
                table |-> << >>,
                output |-> [stdout |-> << >>, g |-> << >>,
                            bufs |-> << << >> >>],
                cur |-> << >>, p |-> 1, depth |-> 1 ]

\* The number of activations the C stack has room for.
MaxStack == 12

\* A call that needs more stack than there is: the process is killed by
\* the segmentation fault, with no diagnostic of its own.
Overflows(pushed) == Len(stack) + Len(pushed) > MaxStack

Crash(lst) ==
    /\ status' = "crashed"
    /\ last' = lst
    /\ UNCHANGED << engine, input, stack, table, out, err, g_outputBuffer, g_errorOccurred >>

Running(e) == status = "running" /\ engine = e /\ stack # << >>

AtLoop(e) == Running(e) /\ Top.fn = "expand_text_impl" /\ Top.pc = "loop"

Cur == At(Top.input, Top.p)

Next1 == At(Top.input, Top.p + 1)

\* The alphanumeric run after the backslash under the cursor.
NameHere == readMacroName(Top.input, Top.p + 1)

AtBackslashName(e) == AtLoop(e) /\ Cur = BS /\ isalnum(Next1)

\* First position at or after p holding a backslash (or the end).
RECURSIVE RunEnd(_, _)
RunEnd(t, p) == IF At(t, p) = NUL \/ t[p] = BS THEN p ELSE RunEnd(t, p + 1)

----------------------------------------------------------------------------
(* Sink-based engine: src/submission2/proj1.c                              *)

\* exit(EXIT_FAILURE) after the diagnostic: the process is gone, the state
\* stays as the failing call left it.
Exit(kind, lst) ==
    /\ status' = "exited"
    /\ err' = Append(err, kind)
    /\ last' = lst
    /\ UNCHANGED << engine, input, stack, table, out, g_outputBuffer, g_errorOccurred >>

\* a plausible slip: the buffer sink keeps only the first character of a run
EmitToFirst(stk, s, chars) ==
    IF s = 0 \/ chars = << >> THEN stk ELSE [stk EXCEPT ![s].ob = Append(@, chars[1])]

\* out_char applied to each of chars, through the sink of the running frame.
EmitTo(stk, s, chars) == IF s = 0 THEN stk ELSE [stk EXCEPT ![s].ob = @ \o chars]

\* The running frame becomes f, writes chars, and calls the frames pushed.
Step(f, chars, pushed, tbl, lst) ==
    IF Overflows(pushed) THEN Crash(lst)
    ELSE /\ stack' = EmitTo([stack EXCEPT ![Len(stack)] = f], Top.sink, chars) \o pushed
         /\ out' = IF Top.sink = 0 THEN out \o chars ELSE out
         /\ table' = tbl
         /\ last' = lst
         /\ UNCHANGED << engine, input, err, status, g_outputBuffer, g_errorOccurred >>

\* First failure of a sequence of readArg results, "" when all are read.
ArgError(rs) ==
    IF \E i \in 1..Len(rs) : rs[i].res = "unbalanced" THEN "UnbalancedBraces"
    ELSE IF \E i \in 1..Len(rs) : rs[i].res = "null" THEN "MissingArgument"
    ELSE ""

ArgTexts(rs) == [i \in 1..Len(rs) |-> rs[i].arg]

ArgRes(rs) == [i \in 1..Len(rs) |-> rs[i].res]

\* Ordinary characters up to the next backslash are copied to the sink.
Literal ==
    /\ AtLoop("sink") /\ Cur # NUL /\ Cur # BS
    /\ LET e == RunEnd(Top.input, Top.p) IN
       Step([Top EXCEPT !.p = e], SubSeq(Top.input, Top.p, e - 1), << >>, table,
            Last("literal", << >>, << >>, << >>))

\* a plausible slip: a call gives the table back as it found it
ReturnRestoringTable ==
    /\ AtLoop("sink") /\ Cur = NUL
    /\ stack' = SubSeq(stack, 1, Len(stack) - 1)
    /\ table' = Top.snap.table
    /\ last' = Last("return", << >>, << >>, << >>)
    /\ UNCHANGED << engine, input, out, err, status, g_outputBuffer, g_errorOccurred >>

\* The loop ends at the terminating NUL: the call returns.
Return ==
    /\ AtLoop("sink") /\ Cur = NUL
    /\ stack' = SubSeq(stack, 1, Len(stack) - 1)
    /\ last' = Last("return", << >>, << >>, << >>)
    /\ UNCHANGED << engine, input, table, out, err, status, g_outputBuffer, g_errorOccurred >>

\* A backslash that ends the text is written and the loop is left.
TrailingBackslash ==
    /\ AtLoop("sink") /\ Cur = BS /\ Next1 = NUL
    /\ stack' = SubSeq(EmitTo(stack, Top.sink, << BS >>), 1, Len(stack) - 1)
    /\ out' = IF Top.sink = 0 THEN Append(out, BS) ELSE out
    /\ last' = Last("trailing", << >>, << >>, << >>)
    /\ UNCHANGED << engine, input, table, err, status, g_outputBuffer, g_errorOccurred >>

Escape ==
    /\ AtLoop("sink") /\ Cur = BS /\ isspecial(Next1)
    /\ Step([Top EXCEPT !.p = @ + 2], << Next1 >>, << >>, table,
            Last("escape", << >>, << >>, << >>))

\* a plausible slip: every backslash that is not part of a name is dropped
OtherBackslashDropsBackslash ==
    /\ AtLoop("sink") /\ Cur = BS
    /\ Next1 # NUL /\ ~isspecial(Next1) /\ ~isalnum(Next1)
    /\ Step([Top EXCEPT !.p = @ + 2], << Next1 >>, << >>, table,
            Last("other", << >>, << >>, << >>))

OtherBackslash ==
    /\ AtLoop("sink") /\ Cur = BS
    /\ Next1 # NUL /\ ~isspecial(Next1) /\ ~isalnum(Next1)
    /\ Step([Top EXCEPT !.p = @ + 2], << BS, Next1 >>, << >>, table,
            Last("other", << >>, << >>, << >>))

Def ==
    /\ AtBackslashName("sink") /\ NameHere.name = Text("def")
    /\ \E a1 \in {readArg(Top.input, NameHere.p)} :
       \E a2 \in {readArg(Top.input, a1.p)} :
       LET lst == Last("def", Text("def"), << a1.arg, a2.arg >>, << a1.res, a2.res >>)
       IN  IF a1.res = "unbalanced" \/ a2.res = "unbalanced"
           THEN Exit("UnbalancedBraces", lst)
           ELSE IF a1.res = "null" \/ a1.arg = << >> \/ ~AllAlnum(a1.arg)
           THEN Exit("InvalidMacroName", lst)
           ELSE LET d == define_macro(table, a1.arg,
                                      IF a2.res = "null" THEN << >> ELSE a2.arg)
                IN  IF d.error # ""
                    THEN Exit(d.error, lst)
                    ELSE Step([Top EXCEPT !.p = a2.p], << >>, << >>, d.table, lst)

Undef ==
    /\ AtBackslashName("sink") /\ NameHere.name = Text("undef")
    /\ \E a1 \in {readArg(Top.input, NameHere.p)} :
       LET lst == Last("undef", Text("undef"), << a1.arg >>, << a1.res >>)
       IN  IF ArgError(<< a1 >>) # ""
           THEN Exit(ArgError(<< a1 >>), lst)
           ELSE LET u == undef_macro(table, a1.arg)
                IN  IF u.error # ""
                    THEN Exit(u.error, lst)
                    ELSE Step([Top EXCEPT !.p = a1.p], << >>, << >>, u.table, lst)

\* a plausible slip: the test is made on the pointer, which is never null here
IfBranchNonNull(condArg, thenArg, elseArg) == thenArg

\* a plausible slip: after THEN the expansion falls through to ELSE
IfBranchFallsThrough(condArg, thenArg, elseArg) ==
    IF condArg = << >> THEN elseArg ELSE thenArg \o elseArg

\* branch = (condArg[0] == '\0') ? elseArg : thenArg
IfBranch(condArg, thenArg, elseArg) ==
    IF condArg = << >> THEN elseArg ELSE thenArg

If ==
    /\ AtBackslashName("sink") /\ NameHere.name = Text("if")
    /\ \E condArg \in {readArg(Top.input, NameHere.p)} :
       \E thenArg \in {readArg(Top.input, condArg.p)} :
       \E elseArg \in {readArg(Top.input, thenArg.p)} :
       LET rs == << condArg, thenArg, elseArg >>
           lst == Last("if", Text("if"), ArgTexts(rs), ArgRes(rs))
       IN  IF ArgError(rs) # ""
           THEN Exit(ArgError(rs), lst)
           ELSE LET branch == IfBranch(condArg.arg, thenArg.arg, elseArg.arg)
                IN  Step([Top EXCEPT !.p = elseArg.p, !.pc = "call1"], << >>,
                         << Frame("expand_text_impl", branch, Top.sink, "branch") >>,
                         table, lst)

\* a plausible slip: the two branches of the conditional are exchanged
IfdefBranchSwapped(tbl, nameArg, thenArg, elseArg) ==
    IF lookup_macro(tbl, nameArg).found THEN elseArg ELSE thenArg

\* branch = (lookup_macro(table, nameArg) != NULL) ? thenArg : elseArg
IfdefBranch(tbl, nameArg, thenArg, elseArg) ==
    IF lookup_macro(tbl, nameArg).found THEN thenArg ELSE elseArg

Ifdef ==
    /\ AtBackslashName("sink") /\ NameHere.name = Text("ifdef")
    /\ \E nameArg \in {readArg(Top.input, NameHere.p)} :
       \E thenArg \in {readArg(Top.input, nameArg.p)} :
       \E elseArg \in {readArg(Top.input, thenArg.p)} :
       LET rs == << nameArg, thenArg, elseArg >>
           lst == Last("ifdef", Text("ifdef"), ArgTexts(rs), ArgRes(rs))
       IN  IF ArgError(rs) # ""
           THEN Exit(ArgError(rs), lst)
           ELSE IF ~AllAlnum(nameArg.arg)
           THEN Exit("InvalidMacroName", lst)
           ELSE LET branch == IfdefBranch(table, nameArg.arg, thenArg.arg, elseArg.arg)
                IN  Step([Top EXCEPT !.p = elseArg.p, !.pc = "call1"], << >>,
                         << Frame("expand_text_impl", branch, Top.sink, "branch") >>,
                         table, lst)

Include ==
    /\ AtBackslashName("sink") /\ NameHere.name = Text("include")
    /\ \E pathArg \in {readArg(Top.input, NameHere.p)} :
       LET lst == Last("include", Text("include"), << pathArg.arg >>, << pathArg.res >>)
       IN  IF ArgError(<< pathArg >>) # ""
           THEN Exit(ArgError(<< pathArg >>), lst)
           ELSE LET file == read_included_file(pathArg.arg)
                IN  IF file.error # ""
                    THEN Exit(file.error, lst)
                    ELSE Step([Top EXCEPT !.p = pathArg.p, !.pc = "call1"], << >>,
                              << Frame("expand_text_impl", file.text, Top.sink, "include") >>,
                              table, lst)

\* a plausible slip: the sub-expansion is handed the caller's sink
expand_text_into_string_shared(text, k) ==
    << Frame("expand_text_into_string", text, 0, "capture"),
       Frame("expand_text_impl", text, Top.sink, "after") >>

\* expand_text_into_string(table, afterArg): a fresh OutputBuffer, and the
\* call of expand_text_impl that writes to it.
expand_text_into_string(text, k) ==
    << Frame("expand_text_into_string", text, 0, "capture"),
       Frame("expand_text_impl", text, k, "after") >>

Expandafter ==
    /\ AtBackslashName("sink") /\ NameHere.name = Text("expandafter")
    /\ \E beforeArg \in {readArg(Top.input, NameHere.p)} :
       \E afterArg \in {readArg(Top.input, beforeArg.p)} :
       LET rs == << beforeArg, afterArg >>
           lst == Last("expandafter", Text("expandafter"), ArgTexts(rs), ArgRes(rs))
       IN  IF ArgError(rs) # ""
           THEN Exit(ArgError(rs), lst)
           ELSE Step([Top EXCEPT !.p = afterArg.p, !.pc = "after",
                                 !.before = beforeArg.arg, !.after = afterArg.arg],
                     << >>, expand_text_into_string(afterArg.arg, Len(stack) + 1),
                     table, lst)

combine_strings(s1, s2) == s1 \o s2

\* expand_text_into_string returns ob.buf; the expandafter branch combines
\* it with beforeArg and expands the combination into its own sink.
IntoStringReturn ==
    /\ Running("sink") /\ Top.fn = "expand_text_into_string"
    /\ LET caller == stack[Len(stack) - 1]
           expandedAfter == Top.ob
           combined == combine_strings(caller.before, expandedAfter)
       IN  stack' = SubSeq(stack, 1, Len(stack) - 2)
                    \o << [caller EXCEPT !.pc = "call1", !.after = expandedAfter],
                          Frame("expand_text_impl", combined, caller.sink, "combined") >>
    /\ last' = Last("combine", << >>, << Top.ob >>, << >>)
    /\ UNCHANGED << engine, input, table, out, err, status, g_outputBuffer, g_errorOccurred >>

UserMacro ==
    /\ AtBackslashName("sink") /\ ~is_builtin(NameHere.name)
    /\ \E arg1 \in {readArg(Top.input, NameHere.p)} :
       LET macroVal == lookup_macro(table, NameHere.name)
           lst == Last("macro", NameHere.name, << arg1.arg >>, << arg1.res >>)
       IN  IF ~macroVal.found
           THEN Exit("UndefinedMacro",
                     Last("macro", NameHere.name, << >>, << >>))
           ELSE IF ArgError(<< arg1 >>) # ""
           THEN Exit(ArgError(<< arg1 >>), lst)
           ELSE Step([Top EXCEPT !.p = arg1.p, !.pc = "call1"], << >>,
                     << Frame("expand_text_impl", Instantiate(macroVal.value, arg1.arg),
                              Top.sink, "inst") >>,
                     table, lst)

\* The first recursive call has returned: expand the rest of the text.
CallRemaining ==
    /\ Running("sink") /\ Top.fn = "expand_text_impl" /\ Top.pc = "call1"
    /\ Step([Top EXCEPT !.pc = "call2"], << >>,
            << Frame("expand_text_impl", Rest(Top.input, Top.p), Top.sink, "rest") >>,
            table, Last("remaining", << >>, << >>, << >>))

\* The call on the rest has returned: `return', the remainder is consumed.
ReturnAfterRemaining ==
    /\ Running("sink") /\ Top.fn = "expand_text_impl" /\ Top.pc = "call2"
    /\ stack' = SubSeq(stack, 1, Len(stack) - 1)
    /\ last' = Last("return", << >>, << >>, << >>)
    /\ UNCHANGED << engine, input, table, out, err, status, g_outputBuffer, g_errorOccurred >>

\* parse_and_expand of submission2 returns: everything was written on the way.
ParseAndExpandReturn ==
    /\ status = "running" /\ engine = "sink" /\ stack = << >>
    /\ status' = "expanded"
    /\ last' = Last("expanded", << >>, << >>, << >>)
    /\ UNCHANGED << engine, input, stack, table, out, err, g_outputBuffer, g_errorOccurred >>

\* main: free_macro_table(&table); return 0 (the same in both programs).
MainReturn ==
    /\ status = "expanded"
    /\ table' = free_macro_table(table)
    /\ status' = "done"
    /\ last' = Last("teardown", << >>, << >>, << >>)
    /\ UNCHANGED << engine, input, stack, out, err, g_outputBuffer, g_errorOccurred >>

----------------------------------------------------------------------------
(* Global-buffer engine: src/submission/proj1.c                            *)

\* raise_error: the message is printed once, the flag is set, exit(0).
raise_error(kind, lst) ==
    /\ status' = "exited"
    /\ err' = IF g_errorOccurred THEN err ELSE Append(err, kind)
    /\ g_errorOccurred' = TRUE
    /\ last' = lst
    /\ UNCHANGED << engine, input, stack, table, out, g_outputBuffer >>

append_string_to_output(chars) ==
    IF g_errorOccurred THEN g_outputBuffer ELSE g_outputBuffer \o chars

\* The running frame becomes f, appends chars, and calls the frames pushed.
G_Step(f, chars, pushed, tbl, lst) ==
    IF Overflows(pushed) THEN Crash(lst)
    ELSE /\ stack' = [stack EXCEPT ![Len(stack)] = f] \o pushed
         /\ g_outputBuffer' = append_string_to_output(chars)
         /\ table' = tbl
         /\ last' = lst
         /\ UNCHANGED << engine, input, out, err, status, g_errorOccurred >>

\* The loop runs while (*p && !g_errorOccurred).
G_AtLoop == AtLoop("global") /\ Cur # NUL /\ ~g_errorOccurred

\* The position after the name and the whitespace skip_spaces passes.
G_AfterName == skip_spaces(Top.input, NameHere.p)

\* A name followed (after whitespace) by an opening brace: an invocation.
G_AtInvocation ==
    /\ G_AtLoop /\ Cur = BS /\ isalnum(Next1)
    /\ At(Top.input, G_AfterName) = "{"

\* The diagnostic of the first readArg that fails, "" when all are read.
G_ArgError(rs) ==
    IF \A i \in 1..Len(rs) : rs[i].res = "ok" THEN ""
    ELSE LET i == CHOOSE k \in 1..Len(rs) :
                      /\ rs[k].res # "ok"
                      /\ \A j \in 1..(k - 1) : rs[j].res = "ok"
         IN  IF rs[i].res = "missing" THEN "MissingArgument" ELSE "UnbalancedBraces"

G_Literal ==
    /\ G_AtLoop /\ Cur # BS
    /\ LET e == RunEnd(Top.input, Top.p) IN
       G_Step([Top EXCEPT !.p = e], SubSeq(Top.input, Top.p, e - 1), << >>, table,
              Last("literal", << >>, << >>, << >>))

\* The loop ends: the call returns, and a caller inside a builtin or macro
\* branch goes on with its own loop (`continue').
G_Return ==
    /\ AtLoop("global") /\ (Cur = NUL \/ g_errorOccurred)
    /\ LET below == SubSeq(stack, 1, Len(stack) - 1) IN
       stack' = IF below # << >> /\ below[Len(below)].pc = "call"
                THEN [below EXCEPT ![Len(below)].pc = "loop"]
                ELSE below
    /\ last' = Last("return", << >>, << >>, << >>)
    /\ UNCHANGED << engine, input, table, out, err, status, g_outputBuffer, g_errorOccurred >>

G_Escape ==
    /\ G_AtLoop /\ Cur = BS /\ isspecial(Next1)
    /\ G_Step([Top EXCEPT !.p = @ + 2], << Next1 >>, << >>, table,
              Last("escape", << >>, << >>, << >>))

\* Backslash + a character that is neither special nor alphanumeric; at the
\* end of the text the backslash alone.
G_OtherBackslash ==
    /\ G_AtLoop /\ Cur = BS /\ ~isspecial(Next1) /\ ~isalnum(Next1)
    /\ IF Next1 = NUL
       THEN G_Step([Top EXCEPT !.p = @ + 1], << BS >>, << >>, table,
                   Last("trailing", << >>, << >>, << >>))
       ELSE G_Step([Top EXCEPT !.p = @ + 2], << BS, Next1 >>, << >>, table,
                   Last("other", << >>, << >>, << >>))

\* A name that no brace follows is written as it stands; the cursor is left
\* after the whitespace skip_spaces passed.
G_LiteralName ==
    /\ G_AtLoop /\ Cur = BS /\ isalnum(Next1)
    /\ At(Top.input, G_AfterName) # "{"
    /\ G_Step([Top EXCEPT !.p = G_AfterName], << BS >> \o NameHere.name, << >>, table,
              Last("name", NameHere.name, << >>, << >>))

G_Def ==
    /\ G_AtInvocation /\ NameHere.name = Text("def")
    /\ \E a1 \in {G_readArg(Top.input, G_AfterName)} :
       \E a2 \in {G_readArg(Top.input, a1.p)} :
       LET rs == << a1, a2 >>
           lst == Last("def", Text("def"), ArgTexts(rs), ArgRes(rs))
       IN  IF G_ArgError(rs) # ""
           THEN raise_error(G_ArgError(rs), lst)
           ELSE IF a1.arg = << >> \/ ~AllAlnum(a1.arg)
           THEN raise_error("InvalidMacroName", lst)
           ELSE LET d == G_define_macro(table, a1.arg, a2.arg)
                IN  IF d.error # ""
                    THEN raise_error(d.error, lst)
                    ELSE G_Step([Top EXCEPT !.p = a2.p], << >>, << >>, d.table, lst)

G_Undef ==
    /\ G_AtInvocation /\ NameHere.name = Text("undef")
    /\ \E a1 \in {G_readArg(Top.input, G_AfterName)} :
       LET lst == Last("undef", Text("undef"), << a1.arg >>, << a1.res >>)
       IN  IF G_ArgError(<< a1 >>) # ""
           THEN raise_error(G_ArgError(<< a1 >>), lst)
           ELSE LET u == undef_macro(table, a1.arg)
                IN  IF u.error # ""
                    THEN raise_error(u.error, lst)
                    ELSE G_Step([Top EXCEPT !.p = a1.p], << >>, << >>, u.table, lst)

G_If ==
    /\ G_AtInvocation /\ NameHere.name = Text("if")
    /\ \E condArg \in {G_readArg(Top.input, G_AfterName)} :
       \E thenArg \in {G_readArg(Top.input, condArg.p)} :
       \E elseArg \in {G_readArg(Top.input, thenArg.p)} :
       LET rs == << condArg, thenArg, elseArg >>
           lst == Last("if", Text("if"), ArgTexts(rs), ArgRes(rs))
       IN  IF G_ArgError(rs) # ""
           THEN raise_error(G_ArgError(rs), lst)
           ELSE LET branch == IfBranch(condArg.arg, thenArg.arg, elseArg.arg)
                IN  G_Step([Top EXCEPT !.p = elseArg.p, !.pc = "call"], << >>,
                           << Frame("expand_text_impl", branch, 0, "branch") >>,
                           table, lst)

G_Ifdef ==
    /\ G_AtInvocation /\ NameHere.name = Text("ifdef")
    /\ \E nameArg \in {G_readArg(Top.input, G_AfterName)} :
       \E thenArg \in {G_readArg(Top.input, nameArg.p)} :
       \E elseArg \in {G_readArg(Top.input, thenArg.p)} :
       LET rs == << nameArg, thenArg, elseArg >>
           lst == Last("ifdef", Text("ifdef"), ArgTexts(rs), ArgRes(rs))
       IN  IF G_ArgError(rs) # ""
           THEN raise_error(G_ArgError(rs), lst)
           ELSE IF ~AllAlnum(nameArg.arg)
           THEN raise_error("InvalidMacroName", lst)
           ELSE LET branch == IfdefBranch(table, nameArg.arg, thenArg.arg, elseArg.arg)
                IN  G_Step([Top EXCEPT !.p = elseArg.p, !.pc = "call"], << >>,
                           << Frame("expand_text_impl", branch, 0, "branch") >>,
                           table, lst)

G_Include ==
    /\ G_AtInvocation /\ NameHere.name = Text("include")
    /\ \E pathArg \in {G_readArg(Top.input, G_AfterName)} :
       LET lst == Last("include", Text("include"), << pathArg.arg >>, << pathArg.res >>)
       IN  IF G_ArgError(<< pathArg >>) # ""
           THEN raise_error(G_ArgError(<< pathArg >>), lst)
           ELSE LET file == read_included_file(pathArg.arg)
                IN  IF file.error # ""
                    THEN raise_error(file.error, lst)
                    ELSE G_Step([Top EXCEPT !.p = pathArg.p, !.pc = "call"], << >>,
                                << Frame("expand_text_impl", file.text, 0, "include") >>,
                                table, lst)

\* a plausible slip: the old buffer is saved after the fresh one replaced it
expand_string_fully_saves_late(text, role) ==
    << [Frame("expand_string_fully", text, 0, "capture")
          EXCEPT !.ob = << >>, !.oldError = g_errorOccurred],
       Frame("expand_text_impl", text, 0, role) >>

\* expand_string_fully(table, text): the global buffer and the error flag
\* are saved in the frame, a fresh buffer takes their place, and
\* expand_text_impl is called on the text.
expand_string_fully(text, role) ==
    << [Frame("expand_string_fully", text, 0, "capture")
          EXCEPT !.ob = g_outputBuffer, !.oldError = g_errorOccurred],
       Frame("expand_text_impl", text, 0, role) >>

\* What expand_string_fully returns: a copy of the temporary buffer, or the
\* empty string when the error flag is set.
G_FullyResult == IF g_errorOccurred THEN << >> ELSE g_outputBuffer

G_Expandafter ==
    /\ G_AtInvocation /\ NameHere.name = Text("expandafter")
    /\ \E beforeArg \in {G_readArg(Top.input, G_AfterName)} :
       \E afterArg \in {G_readArg(Top.input, beforeArg.p)} :
       LET rs == << beforeArg, afterArg >>
           lst == Last("expandafter", Text("expandafter"), ArgTexts(rs), ArgRes(rs))
       IN  IF G_ArgError(rs) # ""
           THEN raise_error(G_ArgError(rs), lst)
           ELSE IF Overflows(expand_string_fully(afterArg.arg, "after"))
           THEN Crash(lst)
           ELSE /\ stack' = [stack EXCEPT ![Len(stack)] =
                                [Top EXCEPT !.p = afterArg.p, !.pc = "ea_after",
                                            !.before = beforeArg.arg,
                                            !.after = afterArg.arg]]
                             \o expand_string_fully(afterArg.arg, "after")
                /\ g_outputBuffer' = << >>
                /\ last' = lst
                /\ UNCHANGED << engine, input, table, out, err, status, g_errorOccurred >>

\* expand_string_fully(afterArg) returns expandedAfter and restores the
\* global buffer; the branch then calls expand_string_fully(beforeArg).
G_AfterExpanded ==
    /\ Running("global") /\ Top.fn = "expand_string_fully"
    /\ stack[Len(stack) - 1].pc = "ea_after"
    /\ LET caller == stack[Len(stack) - 1]
           expandedAfter == G_FullyResult
       IN  stack' = SubSeq(stack, 1, Len(stack) - 2)
                    \o << [caller EXCEPT !.pc = "ea_before", !.after = expandedAfter],
                          [Frame("expand_string_fully", caller.before, 0, "capture")
                             EXCEPT !.ob = Top.ob, !.oldError = Top.oldError],
                          Frame("expand_text_impl", caller.before, 0, "before") >>
    /\ g_outputBuffer' = << >>
    /\ g_errorOccurred' = Top.oldError
    /\ last' = Last("expandedAfter", << >>, << G_FullyResult >>, << >>)
    /\ UNCHANGED << engine, input, table, out, err, status >>

\* expand_string_fully(beforeArg) returns expandedBefore and restores the
\* global buffer; newText = expandedBefore ++ expandedAfter is expanded.
G_BeforeExpanded ==
    /\ Running("global") /\ Top.fn = "expand_string_fully"
    /\ stack[Len(stack) - 1].pc = "ea_before"
    /\ LET caller == stack[Len(stack) - 1]
           expandedBefore == G_FullyResult
           newText == expandedBefore \o caller.after
       IN  stack' = SubSeq(stack, 1, Len(stack) - 2)
                    \o << [caller EXCEPT !.pc = "call"],
                          Frame("expand_text_impl", newText, 0, "combined") >>
    /\ g_outputBuffer' = Top.ob
    /\ g_errorOccurred' = Top.oldError
    /\ last' = Last("combine", << >>, << G_FullyResult >>, << >>)
    /\ UNCHANGED << engine, input, table, out, err, status >>

G_UserMacro ==
    /\ G_AtInvocation /\ ~is_builtin(NameHere.name)
    /\ \E arg1 \in {G_readArg(Top.input, G_AfterName)} :
       LET macroVal == lookup_macro(table, NameHere.name)
           lst == Last("macro", NameHere.name, << arg1.arg >>, << arg1.res >>)
       IN  IF ~macroVal.found
           THEN raise_error("UndefinedMacro",
                            Last("macro", NameHere.name, << >>, << >>))
           ELSE IF G_ArgError(<< arg1 >>) # ""
           THEN raise_error(G_ArgError(<< arg1 >>), lst)
           ELSE G_Step([Top EXCEPT !.p = arg1.p, !.pc = "call"], << >>,
                       << Frame("expand_text_impl", Instantiate(macroVal.value, arg1.arg),
                                0, "inst") >>,
                       table, lst)

\* parse_and_expand of submission: the buffer is printed when no error is
\* flagged.
G_ParseAndExpandReturn ==
    /\ status = "running" /\ engine = "global" /\ stack = << >>
    /\ out' = IF ~g_errorOccurred THEN out \o g_outputBuffer ELSE out
    /\ status' = "expanded"
    /\ last' = Last("expanded", << >>, << >>, << >>)
    /\ UNCHANGED << engine, input, stack, table, err, g_outputBuffer, g_errorOccurred >>

NextSink ==
    \/ Literal \/ Return \/ TrailingBackslash \/ Escape \/ OtherBackslash
    \/ Def \/ Undef \/ If \/ Ifdef \/ Include \/ Expandafter \/ IntoStringReturn
    \/ UserMacro \/ CallRemaining \/ ReturnAfterRemaining
    \/ ParseAndExpandReturn \/ MainReturn

NextGlobal ==
    \/ G_Literal \/ G_Return \/ G_Escape \/ G_OtherBackslash \/ G_LiteralName
    \/ G_Def \/ G_Undef \/ G_If \/ G_Ifdef \/ G_Include
    \/ G_Expandafter \/ G_AfterExpanded \/ G_BeforeExpanded
    \/ G_UserMacro \/ G_ParseAndExpandReturn

Next == NextSink \/ NextGlobal

Spec == Init /\ [][Next]_vars

\* The runs on one piece of the corpus.
InitOnePiece ==
    /\ Init
    /\ \E i \in 1..Len(Corpus) : input = StripComments(Chars(Corpus[i]))

\* The process is scheduled until it ends: a step that can be taken is
\* taken.
FairSpec == InitOnePiece /\ [][Next]_vars /\ WF_vars(Next)

----------------------------------------------------------------------------
(* Runs on texts that define nothing and include nothing, next to the runs *)
(* on one piece of the corpus.  Every construct of a text costs the        *)
(* sink-based engine one more activation: the text after it is expanded by *)
(* a call made from the branch that handled it.                            *)

\* Texts without \def and \include; the last is a row of MaxStack
\* conditionals.
DeepTexts ==
    << "\\if{}{}{x}",
       "\\if{a}{\\ifdef{A}{}{\\expandafter{b}{c}}}{}",
       "\\expandafter{\\if{}{}}{{p}{q}}",
       "\\if{}{}{}\\if{}{}{}\\if{}{}{}\\if{}{}{}\\if{}{}{}\\if{}{}{}\\if{}{}{}\\if{}{}{}\\if{}{}{}\\if{}{}{}\\if{}{}{}\\if{}{}{}" >>

InitDeep ==
    /\ engine \in {"sink", "global"}
    /\ \/ \E i \in 1..Len(Corpus) : input = StripComments(Chars(Corpus[i]))
       \/ \E i \in 1..Len(DeepTexts) : input = StripComments(Chars(DeepTexts[i]))
    /\ stack = << Frame0("expand_text_impl", input, 0, "top",
                          [ output |-> [stdout |-> << >>, g |-> << >>, bufs |-> << >>],
                            table |-> << >> ]) >>
    /\ table = << >>
    /\ out = << >>
    /\ err = << >>
    /\ status = "running"
    /\ g_outputBuffer = << >>
    /\ g_errorOccurred = FALSE
    /\ last = [ op |-> "start", name |-> << >>, args |-> << >>, res |-> << >>,
                table |-> << >>,
                output |-> [stdout |-> << >>, g |-> << >>,
                            bufs |-> << << >> >>],
                cur |-> << >>, p |-> 1, depth |-> 1 ]

FairDeep == InitDeep /\ [][Next]_vars /\ WF_vars(Next)

----------------------------------------------------------------------------
(* The argument readers on their own: every text over braces, backslash    *)
(* and a letter that starts with an opening brace is handed to readArg of  *)
(* the engine chosen.                                                      *)

MaxArgLen == 5

ReaderAlphabet == {"{", "}", BS, "a"}

ReaderTexts == UNION { [1..n -> ReaderAlphabet] : n \in 0..MaxArgLen }

InitReader ==
    /\ engine \in {"sink", "global"}
    /\ \E s \in ReaderTexts : input = << "{" >> \o s
    /\ stack = << >>
    /\ table = << >>
    /\ out = << >>
    /\ err = << >>
    /\ status = "running"
    /\ g_outputBuffer = << >>
    /\ g_errorOccurred = FALSE
    /\ last = [op |-> "start", res |-> "", arg |-> << >>, p |-> 1]

ReadArgCall ==
    /\ status = "running" /\ engine = "sink"
    /\ LET r == readArg(input, 1) IN
       last' = [op |-> "readArg", res |-> r.res, arg |-> r.arg, p |-> r.p]
    /\ status' = "done"
    /\ UNCHANGED << engine, input, stack, table, out, err, g_outputBuffer, g_errorOccurred >>

G_ReadArgCall ==
    /\ status = "running" /\ engine = "global"
    /\ LET r == G_readArg(input, 1) IN
       last' = [op |-> "readArg", res |-> r.res, arg |-> r.arg, p |-> r.p]
    /\ status' = "done"
    /\ UNCHANGED << engine, input, stack, table, out, err, g_outputBuffer, g_errorOccurred >>

NextReader == ReadArgCall \/ G_ReadArgCall

SpecReader == InitReader /\ [][NextReader]_vars

----------------------------------------------------------------------------
(* The two sinks of the sink-based engine side by side: the text is first  *)
(* expanded by expand_text_into_string (out_char_buffer on a fresh         *)
(* OutputBuffer), then, from the same macro table, by expand_text_impl     *)
(* with out_char_stdout.  The frame of the first call stays at the bottom  *)
(* of the stack and keeps what that call delivered.                        *)

\* The macro tables the two expansions start from.
SinkTables ==
    { << >>,
      << [name |-> Text("B"), value |-> Text("b")],
         [name |-> Text("A"), value |-> Text("a#")] >> }

InitSinks ==
    /\ engine = "sink"
    /\ \E parts \in PartSeqs : input = StripComments(Concat(parts))
    /\ table \in SinkTables
    /\ LET snap0 == [ output |-> [stdout |-> << >>, g |-> << >>, bufs |-> << >>],
                      table |-> table ]
       IN  stack = << Frame0("expand_text_into_string", input, 0, "capture", snap0),
                      Frame0("expand_text_impl", input, 1, "after", snap0) >>
    /\ out = << >>
    /\ err = << >>
    /\ status = "running"
    /\ g_outputBuffer = << >>
    /\ g_errorOccurred = FALSE
    /\ last = [ op |-> "start", name |-> << >>, args |-> << >>, res |-> << >>,
                table |-> table,
                output |-> [stdout |-> << >>, g |-> << >>,
                            bufs |-> << << >>, << >> >>],
                cur |-> << >>, p |-> 1, depth |-> 2 ]

\* The expansion into the buffer is over (it returned, or the process
\* ended): its buffer, table and outcome are kept in the bottom frame and
\* the same text is expanded to standard output from the same table.
SecondRun ==
    /\ engine = "sink" /\ stack # << >> /\ stack[1].role = "capture"
    /\ \/ status \in {"exited", "crashed"}
       \/ status = "running" /\ Len(stack) = 1
    /\ stack' = << [stack[1] EXCEPT
                       !.role = "first",
                       !.snap = [ output |-> @.output, table |-> @.table,
                                  first |-> [ table |-> table, status |-> status,
                                              err |-> err ] ]],
                   Frame0("expand_text_impl", input, 0, "top", stack[1].snap) >>
    /\ table' = stack[1].snap.table
    /\ out' = << >>
    /\ err' = << >>
    /\ status' = "running"
    /\ last' = [Last("second", << >>, << >>, << >>) EXCEPT !.depth = 2, !.p = 1]
    /\ UNCHANGED << engine, input, g_outputBuffer, g_errorOccurred >>

NextSinks ==
    \/ Literal \/ Return \/ TrailingBackslash \/ Escape \/ OtherBackslash
    \/ Def \/ Undef \/ If \/ Ifdef \/ Include \/ Expandafter
    \/ (Len(stack) > 1 /\ IntoStringReturn)
    \/ UserMacro \/ CallRemaining \/ ReturnAfterRemaining
    \/ SecondRun

SpecSinks == InitSinks /\ [][NextSinks]_vars

----------------------------------------------------------------------------
(* Properties                                                              *)

\* The steps that handle a backslash followed by a name.
ConstructOps ==
    {"name", "def", "undef", "if", "ifdef", "include", "expandafter", "macro"}

\* The frame that was running in the last step (still on the stack after a
\* construct step, and after an exit).
LastFrame == stack[last.depth]

\* The text the last step consumed from the frame it ran in.
Consumed == SubSeq(LastFrame.input, last.p, LastFrame.p - 1)

IsPrefix(a, b) == Len(a) <= Len(b) /\ SubSeq(b, 1, Len(a)) = a

IsSuffix(a, b) == Len(a) <= Len(b) /\ SubSeq(b, Len(b) - Len(a) + 1, Len(b)) = a

\* Every frame below the top one keeps the buffer it had in the last step,
\* and so do standard output and the global buffer.
NothingWritten ==
    /\ out = last.output.stdout
    /\ g_outputBuffer = last.output.g
    /\ \A i \in 1..last.depth : stack[i].ob = last.output.bufs[i]

\* The template scanned once, left to right, as a sequence of tokens:
\* backslash + character, a last lone backslash, or one character.
RECURSIVE C1_Tokens(_)
C1_Tokens(T) ==
    IF T = << >> THEN << >>
    ELSE IF Head(T) = BS /\ Len(T) >= 2
    THEN << SubSeq(T, 1, 2) >> \o C1_Tokens(SubSeq(T, 3, Len(T)))
    ELSE << << Head(T) >> >> \o C1_Tokens(Tail(T))

C1_TokenValue(tok, ARG) ==
    IF tok = << "#" >> THEN ARG
    ELSE IF Len(tok) = 2 /\ tok[2] \in {BS, "{", "}", "#", "%"} THEN << tok[2] >>
    ELSE tok

RECURSIVE C1_Flatten(_, _)
C1_Flatten(toks, ARG) ==
    IF toks = << >> THEN << >>
    ELSE C1_TokenValue(Head(toks), ARG) \o C1_Flatten(Tail(toks), ARG)

C1_instantiate(T, ARG) == C1_Flatten(C1_Tokens(T), ARG)

\* C1: a step that invokes a defined user macro NAME with argument ARG
\* writes nothing itself and calls the expansion of instantiate(T, ARG),
\* T the template bound to NAME, into the sink of the caller; the caller is
\* left at the continuation, the text right after the argument's closing
\* brace, which is expanded only when that call has returned (every frame
\* that expands a continuation is the second call of the frame below it).
\* \def{A}{hello-#-world}\A{X} ends with the output hello-X-world.
C1_UserMacroExpansion ==
    /\ (last.op = "macro" /\ status = "running") =>
          LET T == lookup_macro(last.table, last.name).value
              ARG == last.args[1]
          IN  /\ Len(stack) = last.depth + 1
              /\ Top.role = "inst" /\ Top.p = 1
              /\ Top.input = C1_instantiate(T, ARG)
              /\ Top.sink = LastFrame.sink
              /\ NothingWritten
              /\ table = last.table
              /\ LastFrame.pc \in {"call1", "call"}
              /\ IsPrefix(<< BS >> \o last.name, Consumed)
              /\ IsSuffix(<< "{" >> \o ARG \o << "}" >>, Consumed)
              /\ \A i \in (Len(last.name) + 2)..(Len(Consumed) - Len(ARG) - 2) :
                     isspace(Consumed[i])
    /\ \A i \in 1..Len(stack) :
          stack[i].role = "rest" =>
              /\ i > 1 /\ stack[i - 1].pc = "call2"
              /\ stack[i].input = Rest(stack[i - 1].input, stack[i - 1].p)
              /\ stack[i].sink = stack[i - 1].sink
    /\ (input = Text("\\def{A}{hello-#-world}\\A{X}") /\ status = "done") =>
          out = Text("hello-X-world")

\* A macro whose template holds escapes and several # has been invoked.
C1_Witness ==
    /\ status = "running" /\ last.op = "macro" /\ last.name = Text("B")
    /\ last.args = << Text("-#") >>
    /\ Top.input = Text("#\\-#\\+-#")

\* C2 (as stated): in the global-buffer engine BEFORE is never scanned on
\* its own, and the text expanded for \expandafter{BEFORE}{AFTER} is
\* BEFORE, unexpanded, followed by the expansion S of AFTER.
C2_BeforeTakenUnexpanded ==
    engine = "global" =>
        \A i \in 1..Len(stack) :
            /\ stack[i].role # "before"
            /\ stack[i].role = "combined" =>
                   stack[i].input = stack[i - 1].before \o stack[i - 1].after

\* C3: in the sink-based engine, while AFTER is being expanded (its capture
\* buffer is on the stack) standard output and every enclosing buffer stay
\* as they were when \expandafter was dispatched; when the capture returns
\* S, the text BEFORE ++ S is expanded into the sink of the \expandafter
\* with the table as the expansion of AFTER left it; a frame waiting for
\* the capture, for its first call or for the continuation has exactly
\* that callee above it, so the continuation comes last.
\* \expandafter{\B{}}{\def{B}{y}} ends with the output y.
C3_ExpandafterOrder ==
    engine = "sink" =>
        /\ \A k \in 1..Len(stack) :
              stack[k].fn = "expand_text_into_string" =>
                  /\ out = stack[k].snap.output.stdout
                  /\ \A j \in 1..(k - 1) : stack[j].ob = stack[k].snap.output.bufs[j]
                  /\ k > 1 /\ stack[k - 1].pc = "after"
                  /\ stack[k].input = stack[k - 1].after
                  /\ k < Len(stack) => /\ stack[k + 1].role = "after"
                                       /\ stack[k + 1].sink = k
                                       /\ stack[k + 1].input = stack[k].input
        /\ (last.op = "combine") =>
              LET caller == stack[Len(stack) - 1] IN
              /\ Len(stack) = last.depth
              /\ Top.role = "combined"
              /\ Top.input = caller.before \o last.args[1]
              /\ Top.sink = caller.sink
              /\ caller.pc = "call1"
              /\ table = last.table
              /\ out = last.output.stdout
              /\ \A j \in 1..(last.depth - 1) : stack[j].ob = last.output.bufs[j]
        /\ \A i \in 1..(Len(stack) - 1) :
              /\ stack[i].pc = "after" => stack[i + 1].fn = "expand_text_into_string"
              /\ stack[i].pc = "call1" =>
                     stack[i + 1].role \in {"combined", "branch", "include", "inst"}
              /\ stack[i].pc = "call2" => stack[i + 1].role = "rest"
              /\ stack[i].fn = "expand_text_impl" => stack[i].pc # "loop"
        /\ (input = Text("\\expandafter{\\B{}}{\\def{B}{y}}") /\ status = "done") =>
              out = Text("y")

\* BEFORE ++ S is about to be expanded with a macro in the table that the
\* expansion of AFTER defined.
C3_Witness ==
    /\ engine = "sink" /\ last.op = "combine" /\ status = "running"
    /\ Top.input = Text("\\B{}")
    /\ Bound(table, Text("B")) /\ ~Bound(stack[Len(stack) - 1].snap.table, Text("B"))

\* C4 (as stated): a failing run of the sink-based engine has written
\* nothing to standard output.
C4_NoPartialOutput ==
    (engine = "sink" /\ status = "exited") => out = << >>

\* C5: the macro table never holds two entries with the same name.
C5_UniqueNames ==
    \A i, j \in 1..Len(table) : table[i].name = table[j].name => i = j

\* A \def of a bound name was attempted on a table of two entries.
C5_Witness ==
    /\ last.op = "def" /\ status = "exited" /\ Len(table) = 2
    /\ Bound(table, last.args[1])

\* C6 (as stated): in the sink-based engine no builtin name is an entry of
\* the macro table.
C6_BuiltinsNeverStored ==
    engine = "sink" => \A i \in 1..Len(table) : ~is_builtin(table[i].name)

\* C7: a \def whose two arguments were read and whose NAME is bound ends
\* the run with the one diagnostic DuplicateMacro and leaves the table as
\* it was.
C7_DuplicateDefFails ==
    (/\ last.op = "def" /\ last.res = << "ok", "ok" >>
     /\ Bound(last.table, last.args[1])) =>
        /\ status = "exited"
        /\ err = << "DuplicateMacro" >>
        /\ table = last.table

\* \def{A}{1}\def{A}{2} has failed at its second \def.
C7_Witness ==
    /\ input = Text("\\def{A}{1}\\def{A}{2}")
    /\ status = "exited" /\ err = << "DuplicateMacro" >>
    /\ table = << [name |-> Text("A"), value |-> Text("1")] >>

\* The table without the entries named name.
RECURSIVE C8_Without(_, _)
C8_Without(tbl, name) ==
    IF tbl = << >> THEN << >>
    ELSE IF Head(tbl).name = name THEN C8_Without(Tail(tbl), name)
    ELSE << Head(tbl) >> \o C8_Without(Tail(tbl), name)

\* C8: an \undef whose argument NAME was read fails with the one diagnostic
\* UndefinedMacro and an unchanged table when NAME is not bound; when it is
\* bound the run goes on, one entry is gone, the table is the old one
\* without NAME, and nothing was written anywhere.
C8_Undef ==
    (last.op = "undef" /\ last.res = << "ok" >>) =>
        IF Bound(last.table, last.args[1])
        THEN /\ status = "running" /\ err = << >>
             /\ Len(table) = Len(last.table) - 1
             /\ table = C8_Without(last.table, last.args[1])
             /\ Len(stack) = last.depth
             /\ NothingWritten
        ELSE /\ status = "exited" /\ err = << "UndefinedMacro" >>
             /\ table = last.table

\* An \undef has removed an entry that was not the head of the list.
C8_Witness ==
    /\ last.op = "undef" /\ status = "running"
    /\ Len(last.table) = 2 /\ last.table[2].name = last.args[1]
    /\ table = << last.table[1] >>

\* C9 (as stated): a backslash and a name NAME that no { follows are
\* written as they stand, without an error, and the scan resumes right
\* after NAME.
C9_NameWithoutBrace ==
    (/\ last.op \in ConstructOps
     /\ At(LastFrame.input, NameEnd(LastFrame.input, last.p + 1)) # "{") =>
        LET NAME == readMacroName(LastFrame.input, last.p + 1).name IN
        /\ status = "running" /\ err = << >>
        /\ CurOut = last.cur \o << BS >> \o NAME
        /\ Len(stack) = last.depth
        /\ Top.p = last.p + 1 + Len(NAME)

\* C10 (as stated): in the sink-based engine a construct with an argument
\* that does not start with { fails with MissingArgument and leaves the
\* table unchanged.
C10_MissingArgumentFails ==
    (/\ engine = "sink" /\ last.op \in ConstructOps
     /\ \E i \in 1..Len(last.res) : last.res[i] = "null") =>
        /\ status = "exited"
        /\ err = << "MissingArgument" >>
        /\ table = last.table

\* The backslash at i escapes the character after it: it is not itself
\* escaped by the backslash before it.
RECURSIVE C11_Escaping(_, _)
C11_Escaping(t, i) ==
    i >= 1 /\ i <= Len(t) /\ t[i] = BS /\ ~C11_Escaping(t, i - 1)

C11_Escaped(t, i) == C11_Escaping(t, i - 1)

\* The brace depth after the characters 2..i of a text that starts with {.
RECURSIVE C11_Depth(_, _)
C11_Depth(t, i) ==
    IF i <= 1 THEN 1
    ELSE C11_Depth(t, i - 1)
         + (IF C11_Escaped(t, i) THEN 0
            ELSE IF t[i] = "{" THEN 1
            ELSE IF t[i] = "}" THEN -1
            ELSE 0)

C11_Closing(t) == { i \in 2..Len(t) : C11_Depth(t, i) = 0 }

\* C11: for a text that starts with {, each reader returns the characters
\* between that brace and the first unescaped } that brings the depth back
\* to 0 (nested braces and backslashes kept, the last } left out) and the
\* cursor right after that }; when there is no such }, it reports unbalanced
\* braces.  A character after an escaping backslash never changes the
\* depth, an escaped backslash escapes nothing, and the parity-counting
\* reader and the flag-based reader give the same text and cursor.
C11_ReadArgContract ==
    (status = "done" /\ last.op = "readArg") =>
        /\ IF C11_Closing(input) = {}
           THEN last.res = "unbalanced"
           ELSE LET close == CHOOSE i \in C11_Closing(input) :
                                 \A j \in C11_Closing(input) : i <= j
                IN  /\ last.res = "ok"
                    /\ last.arg = SubSeq(input, 2, close - 1)
                    /\ last.p = close + 1
        /\ readArg(input, 1) = G_readArg(input, 1)

\* The parity-counting reader has read an argument that holds an escaped
\* backslash before a closing brace and text after the argument.
C11_Witness ==
    /\ engine = "global" /\ status = "done" /\ last.op = "readArg"
    /\ input = Text("{\\\\}a}")
    /\ last.arg = Text("\\\\") /\ last.p = 5

\* The number of arguments the construct named name reads.
C12_Arity(name) ==
    IF name \in {Text("if"), Text("ifdef")} THEN 3
    ELSE IF name \in {Text("def"), Text("expandafter")} THEN 2
    ELSE 1

\* Reading n arguments of t from p runs into the end of t inside an
\* argument: one of them opens with { and has no closing brace, and the
\* ones before it are whole.
RECURSIVE C12_HitsEnd(_, _, _)
C12_HitsEnd(t, p, n) ==
    LET q == skip_spaces(t, p)
        cl == C11_Closing(Rest(t, q))
    IN  /\ n > 0
        /\ At(t, q) = "{"
        /\ \/ cl = {}
           \/ /\ cl # {}
              /\ C12_HitsEnd(t, q + (CHOOSE i \in cl : \A j \in cl : i <= j), n - 1)

\* C12: when the last step dispatched a builtin, or a bound user macro,
\* and the text ends inside one of its arguments, the run has failed with
\* the one diagnostic UnbalancedBraces and the table is as it was before
\* the construct.  \def{A}{x fails and A is not defined.
C12_UnbalancedBracesFails ==
    /\ (/\ last.op \in ConstructOps \ {"name"}
        /\ LET NAME == readMacroName(LastFrame.input, last.p + 1) IN
           /\ is_builtin(NAME.name) \/ Bound(last.table, NAME.name)
           /\ C12_HitsEnd(LastFrame.input, NAME.p, C12_Arity(NAME.name))) =>
           /\ status = "exited"
           /\ err = << "UnbalancedBraces" >>
           /\ table = last.table
    /\ (input = Text("\\def{A}{x") /\ last.op # "start") =>
           /\ status = "exited"
           /\ err = << "UnbalancedBraces" >>
           /\ ~Bound(table, Text("A"))

\* The text has ended inside the VALUE of a \def while the table held an
\* entry.
C12_Witness ==
    /\ last.op = "def" /\ status = "exited" /\ err = << "UnbalancedBraces" >>
    /\ last.res[1] = "ok" /\ last.res[2] = "unbalanced"
    /\ Len(table) = 1

\* From position i on, the text c is the arguments args in braces, one
\* after the other, each after optional whitespace, and nothing else.
RECURSIVE C13_IsArgs(_, _, _)
C13_IsArgs(c, i, args) ==
    IF args = << >> THEN i = Len(c) + 1
    ELSE LET q == skip_spaces(c, i)
             a == Head(args)
         IN  /\ At(c, q) = "{"
             /\ SubSeq(c, q + 1, q + Len(a)) = a
             /\ At(c, q + Len(a) + 1) = "}"
             /\ C13_IsArgs(c, q + Len(a) + 2, Tail(args))

\* C13: a step that dispatches \if with its three arguments COND, THEN and
\* ELSE read goes on without an error whatever COND holds, writes nothing
\* and leaves the table alone, and calls the expansion of ELSE when COND is
\* empty and of THEN otherwise, into the sink of the caller; the caller
\* waits at the continuation right after the third argument.  A branch
\* frame always has its caller waiting below it.
\* \if{}{T}{E} ends with the output E and \if{x}{T}{E} with T.
C13_IfBranch ==
    /\ (last.op = "if" /\ last.res = << "ok", "ok", "ok" >>) =>
          LET COND == last.args[1]
              THEN_ == last.args[2]
              ELSE_ == last.args[3]
          IN  /\ status = "running" /\ err = << >>
              /\ Len(stack) = last.depth + 1
              /\ Top.role = "branch" /\ Top.p = 1
              /\ Top.input = (IF COND = << >> THEN ELSE_ ELSE THEN_)
              /\ Top.sink = LastFrame.sink
              /\ NothingWritten
              /\ table = last.table
              /\ LastFrame.pc \in {"call1", "call"}
              /\ IsPrefix(Text("\\if"), Consumed)
              /\ C13_IsArgs(Consumed, 4, last.args)
    /\ \A i \in 1..Len(stack) :
          stack[i].role = "branch" =>
              /\ i > 1 /\ stack[i - 1].pc \in {"call1", "call"}
              /\ stack[i].sink = stack[i - 1].sink
    /\ (input = Text("\\if{}{T}{E}") /\ status = "done") => out = Text("E")
    /\ (input = Text("\\if{x}{T}{E}") /\ status = "done") => out = Text("T")

\* An \if whose COND holds an invocation of an undefined macro has chosen
\* THEN.
C13_Witness ==
    /\ last.op = "if" /\ status = "running"
    /\ last.args[1] = Text("\\U{}")
    /\ ~Bound(table, Text("U"))
    /\ Top.input = last.args[2]

\* C14: a step that dispatches \ifdef with its three arguments NAME, THEN
\* and ELSE read fails with the one diagnostic InvalidMacroName, no branch
\* called, when NAME holds a character that is not alphanumeric; otherwise
\* it calls the expansion of THEN when NAME is bound in the table as it is
\* at that moment and of ELSE when it is not, into the sink of the caller,
\* writing nothing and leaving the table alone.
\* After \def{A}{1}, \ifdef{A}{yes}{no} gives yes and \ifdef{B}{yes}{no} no.
C14_IfdefBranch ==
    /\ (last.op = "ifdef" /\ last.res = << "ok", "ok", "ok" >>) =>
          LET NAME == last.args[1]
              THEN_ == last.args[2]
              ELSE_ == last.args[3]
          IN  /\ table = last.table
              /\ NothingWritten
              /\ IF \E i \in 1..Len(NAME) : ~isalnum(NAME[i])
                 THEN /\ status = "exited"
                      /\ err = << "InvalidMacroName" >>
                      /\ Len(stack) = last.depth
                 ELSE /\ status = "running" /\ err = << >>
                      /\ Len(stack) = last.depth + 1
                      /\ Top.role = "branch" /\ Top.p = 1
                      /\ Top.input =
                            (IF \E i \in 1..Len(last.table) : last.table[i].name = NAME
                             THEN THEN_ ELSE ELSE_)
                      /\ Top.sink = LastFrame.sink
                      /\ LastFrame.pc \in {"call1", "call"}
                      /\ IsPrefix(Text("\\ifdef"), Consumed)
                      /\ C13_IsArgs(Consumed, 7, last.args)
    /\ (input = Text("\\def{A}{1}\\ifdef{A}{yes}{no}") /\ status = "done") =>
          out = Text("yes")
    /\ (input = Text("\\def{A}{1}\\ifdef{B}{yes}{no}") /\ status = "done") =>
          out = Text("no")
    /\ (input = Text("\\undef{A}\\ifdef{A}{yes}{no}") /\ last.op # "start") =>
          status = "exited"

\* An \ifdef has chosen THEN for a name bound by the older of two entries.
C14_Witness ==
    /\ last.op = "ifdef" /\ status = "running"
    /\ Len(table) = 2 /\ table[2].name = last.args[1]
    /\ Top.input = Text("yes")

\* The last step dispatched \def and read both NAME and VALUE.
C15_DefRead == last.op = "def" /\ last.res = << "ok", "ok" >>

C15_InvalidName(NAME) == NAME = << >> \/ \E i \in 1..Len(NAME) : ~isalnum(NAME[i])

\* The step has bound NAME to VALUE, written nothing and gone on.
C15_HasBound(NAME, VALUE) ==
    /\ status = "running" /\ err = << >>
    /\ Len(stack) = last.depth
    /\ NothingWritten
    /\ lookup_macro(table, NAME) = [found |-> TRUE, value |-> VALUE]
    /\ C8_Without(table, NAME) = last.table
    /\ IsPrefix(Text("\\def"), Consumed)
    /\ C13_IsArgs(Consumed, 5, << NAME, VALUE >>)

\* C15 (amended): a \def{NAME}{VALUE} whose NAME is empty or holds a
\* character that is not alphanumeric fails with the one diagnostic
\* InvalidMacroName and leaves the table as it was; with a NAME that is
\* valid, unbound and not the name of a builtin it writes nothing and binds
\* NAME to VALUE, the text between the braces as it stands, the other
\* entries kept.  A construct inside VALUE is resolved at the invocation:
\* \def{D}{\E{#}}\def{E}{e#}\D{X} ends with the output eX.
C15_DefBindsRaw ==
    /\ C15_DefRead =>
          LET NAME == last.args[1]
              VALUE == last.args[2]
          IN  /\ C15_InvalidName(NAME) =>
                    /\ status = "exited"
                    /\ err = << "InvalidMacroName" >>
                    /\ table = last.table
              /\ (/\ ~C15_InvalidName(NAME)
                  /\ ~Bound(last.table, NAME)
                  /\ NAME \notin BuiltinNames) => C15_HasBound(NAME, VALUE)
    /\ (input = Text("\\def{D}{\\E{#}}\\def{E}{e#}\\D{X}") /\ status = "done") =>
          out = Text("eX")

\* A VALUE that invokes a macro not yet defined has been stored as it
\* stands, next to an older entry.
C15_Witness ==
    /\ C15_DefRead /\ status = "running"
    /\ last.args = << Text("D"), Text("\\E{#}") >>
    /\ Len(last.table) = 1 /\ ~Bound(table, Text("E"))
    /\ table[1] = [name |-> Text("D"), value |-> Text("\\E{#}")]

\* C15 (as stated): every \def with a valid unbound NAME, the name of a
\* builtin included, binds NAME to VALUE.
C15_DefBindsAnyValidName ==
    (/\ C15_DefRead
     /\ ~C15_InvalidName(last.args[1])
     /\ ~Bound(last.table, last.args[1])) =>
        C15_HasBound(last.args[1], last.args[2])

\* C16: when the last step met a backslash, a name NAME that is neither a
\* builtin nor bound in the table at that moment, and an opening brace
\* right after it, the run has failed with the one diagnostic
\* UndefinedMacro, and the argument was not expanded: no call was made,
\* nothing was written, the table is as it was.  \Unknown{x} fails, and so
\* does \U{...} after \def{U}{u}\undef{U}.
C16_UndefinedMacroFails ==
    /\ (/\ last.op \in ConstructOps
        /\ LET NAME == readMacroName(LastFrame.input, last.p + 1) IN
           /\ NAME.name \notin BuiltinNames
           /\ \A i \in 1..Len(last.table) : last.table[i].name # NAME.name
           /\ At(LastFrame.input, NAME.p) = "{") =>
           /\ status = "exited"
           /\ err = << "UndefinedMacro" >>
           /\ Len(stack) = last.depth
           /\ NothingWritten
           /\ table = last.table
    /\ (input = Text("\\Unknown{x}") /\ last.op # "start") =>
           status = "exited" /\ err = << "UndefinedMacro" >> /\ out = << >>
    /\ (input = Text("\\def{U}{u}\\undef{U}\\U{\\B{}}") /\ last.op \notin {"start", "def", "undef"}) =>
           status = "exited" /\ err = << "UndefinedMacro" >>
               /\ last.name = Text("U")

\* A macro that was defined and then undefined has been invoked.
C16_Witness ==
    /\ input = Text("\\def{U}{u}\\undef{U}\\U{\\B{}}")
    /\ last.op = "macro" /\ last.name = Text("U")
    /\ status = "exited" /\ err = << "UndefinedMacro" >>

\* C17 (as stated): a run on the self-referential macro
\* \def{A}{\A{}}\A{} eventually ends in an error state that has reported
\* ResourceExhausted.
C17_RecursionReported ==
    (input = Text("\\def{A}{\\A{}}\\A{}"))
        ~> (status = "exited" /\ \E i \in 1..Len(err) : err[i] = "ResourceExhausted")

\* C18 (as stated): in every run, the runs that an error ends included,
\* the teardown of the macro table eventually runs.
C18_TeardownAlwaysRuns == <>(last.op = "teardown")

\* C19 (as stated): in the global-buffer engine a run that has failed has
\* written exactly one diagnostic, whatever the depth of the calls at that
\* moment, and a run that has written a diagnostic has stopped there.
C19_OneDiagnostic ==
    engine = "global" =>
        /\ status \in {"exited", "crashed"} => Len(err) = 1
        /\ err # << >> => status = "exited"

\* C20: the step that brought the run where it is changed the macro table
\* only if it executed a \def or an \undef (or was the teardown at the end
\* of the run): after a \def the table is the old one, or the old one with
\* the new entry in front; after an \undef it is the old one, or the old
\* one without the name; after any other step, a return from a branch, a
\* macro body, an included file or an \expandafter operand included, it is
\* the old one.  \include{f}\A{X}, where the file f defines A as inc,
\* ends with the output inc.
C20_TableFrame ==
    /\ last.op \notin {"start", "def", "undef", "teardown"} => table = last.table
    /\ last.op = "def" =>
          \/ table = last.table
          \/ /\ Len(last.args) = 2
             /\ table = << [name |-> last.args[1], value |-> last.args[2]] >>
                            \o last.table
    /\ last.op = "undef" =>
          \/ table = last.table
          \/ table = C8_Without(last.table, last.args[1])
    /\ (input = Text("\\include{f}\\A{X}") /\ status = "done") => out = Text("inc")

\* The expansion of an included file that defined a macro has returned to
\* the text that included it.
C20_Witness ==
    /\ input = Text("\\include{f}\\A{X}")
    /\ last.op = "return" /\ Len(stack) < last.depth
    /\ status = "running"
    /\ table = << [name |-> Text("A"), value |-> Text("inc")] >>
    /\ \E i \in 1..Len(stack) : stack[i].p = 12 /\ stack[i].role = "top"

\* The tokens of the template that are an unescaped #.
C21_Hashes(T) == { k \in 1..Len(C1_Tokens(T)) : C1_Tokens(T)[k] = << "#" >> }

\* Where the token k of the template starts in the instantiated text.
C21_Start(T, ARG, k) == Len(C1_Flatten(SubSeq(C1_Tokens(T), 1, k - 1), ARG)) + 1

\* C21: the step that invokes a user macro captures its argument ARG
\* without expanding it: it writes nothing, raises nothing and leaves the
\* table alone, whatever constructs ARG holds.  The text it hands to the
\* re-scan holds ARG once for each unescaped # of the template, at the
\* place of that #, and nothing of ARG besides: its length is that of the
\* template instantiated with the empty argument plus Len(ARG) for each
\* unescaped #.  After \def{A}{}, \A{\def{B}{1}} leaves B undefined; after
\* \def{A}{hello-#-world} it defines B once; after \def{A}{##} it fails
\* with DuplicateMacro at the second copy.
C21_CaptureExpandsNothing ==
    /\ (last.op = "macro" /\ status = "running") =>
          LET T == lookup_macro(last.table, last.name).value
              ARG == last.args[1]
          IN  /\ err = << >>
              /\ table = last.table
              /\ NothingWritten
              /\ Top.role = "inst" /\ Top.p = 1
              /\ Len(Top.input) = Len(C1_instantiate(T, << >>))
                                    + Cardinality(C21_Hashes(T)) * Len(ARG)
              /\ \A k \in C21_Hashes(T) :
                     SubSeq(Top.input, C21_Start(T, ARG, k),
                            C21_Start(T, ARG, k) + Len(ARG) - 1) = ARG
              /\ C21_Hashes(T) = {} => Top.input = C1_instantiate(T, << >>)
    /\ input = Text("\\def{A}{}\\A{\\def{B}{1}}") =>
          /\ ~Bound(table, Text("B"))
          /\ status # "exited"
          /\ status = "done" => out = << >>
    /\ input = Text("\\def{A}{hello-#-world}\\A{\\def{B}{1}}") =>
          /\ status # "exited"
          /\ status = "expanded" => Bound(table, Text("B")) /\ out = Text("hello--world")
    /\ input = Text("\\def{A}{##}\\A{\\def{B}{1}}") =>
          /\ status \notin {"expanded", "done"}
          /\ status = "exited" =>
                /\ err = << "DuplicateMacro" >>
                /\ last.op = "def" /\ last.args[1] = Text("B")
                /\ table = << [name |-> Text("B"), value |-> Text("1")],
                              [name |-> Text("A"), value |-> Text("##")] >>

\* The \def held by the argument has failed at the second copy of the
\* instantiated text, the first copy having defined B.
C21_Witness ==
    /\ input = Text("\\def{A}{##}\\A{\\def{B}{1}}")
    /\ status = "exited" /\ err = << "DuplicateMacro" >>
    /\ last.op = "def" /\ LastFrame.role = "inst"
    /\ LastFrame.input = Text("\\def{B}{1}\\def{B}{1}")
    /\ Bound(table, Text("B"))

\* The name after the backslash the last step handled, and where it ends.
C22_Name == readMacroName(LastFrame.input, last.p + 1)

\* C22: a step that meets a backslash, the name of a builtin and an
\* opening brace runs that builtin, whatever the macro table holds, a
\* binding of that very name included: the step is recorded under the
\* builtin, and the text it calls the expansion of, if any, is never an
\* instantiated template.  The step that instantiates a template is never
\* taken for the name of a builtin.  After a \def of each builtin name the
\* builtin still does its work: \if chooses its branch, \def binds,
\* \undef fails on an unbound name, \ifdef tests the table, \include
\* expands the file and \expandafter expands AFTER first.
C22_BuiltinsNotShadowed ==
    /\ last.op = "macro" => last.name \notin BuiltinNames
    /\ (/\ last.op \in ConstructOps
        /\ C22_Name.name \in BuiltinNames
        /\ At(LastFrame.input, C22_Name.p) = "{") =>
           /\ last.op \notin {"macro", "name"}
           /\ last.name = C22_Name.name
           /\ Text(last.op) = C22_Name.name
           /\ (status = "running" /\ Len(stack) > last.depth) =>
                  stack[last.depth + 1].role # "inst"
    /\ (input = Text("\\def{if}{x}\\if{}{T}{E}") /\ status = "done") => out = Text("E")
    /\ (input = Text("\\def{def}{x}\\def{A}{1}") /\ status = "expanded") =>
           lookup_macro(table, Text("A")) = [found |-> TRUE, value |-> Text("1")]
    /\ (input = Text("\\def{undef}{x}\\undef{A}") /\ last.op = "undef") =>
           status = "exited" /\ err = << "UndefinedMacro" >>
    /\ (input = Text("\\def{ifdef}{x}\\ifdef{A}{yes}{no}") /\ status = "done") =>
           out = Text("no")
    /\ (input = Text("\\def{include}{x}\\include{f}") /\ status = "expanded") =>
           lookup_macro(table, Text("A")) = [found |-> TRUE, value |-> Text("inc")]
    /\ (input = Text("\\def{expandafter}{x}\\expandafter{\\B{}}{\\def{B}{y}}")
           /\ status = "done") => out = Text("y")

\* \if has been dispatched as the builtin while the table bound the name
\* if to a template.
C22_Witness ==
    /\ last.op = "if" /\ status = "running"
    /\ lookup_macro(last.table, Text("if")) = [found |-> TRUE, value |-> Text("x")]
    /\ Top.role = "branch"

\* The expansion to standard output is over, after the one into a buffer.
C23_BothDone ==
    /\ stack # << >> /\ stack[1].role = "first"
    /\ status # "running" \/ Len(stack) = 1

\* C23: in the sink-based engine, for each input text and each starting
\* table, the expansion with out_char_stdout delivers to standard output
\* the characters the expansion with out_char_buffer delivered to its
\* buffer, in the same order (at every moment a prefix of them, at the end
\* all of them), leaves the same macro table and ends the same way: both
\* return, or both stop with the same diagnostic.  The expansion into the
\* buffer writes nothing to standard output.
C23_SinkAgnostic ==
    /\ (stack # << >> /\ stack[1].role = "capture") => out = << >>
    /\ (stack # << >> /\ stack[1].role = "first") => IsPrefix(out, stack[1].ob)
    /\ C23_BothDone =>
          /\ out = stack[1].ob
          /\ table = stack[1].snap.first.table
          /\ status = stack[1].snap.first.status
          /\ err = stack[1].snap.first.err

\* Both expansions of a text with an \expandafter have returned, having
\* written the same text and defined the same macro.
C23_Witness ==
    /\ C23_BothDone /\ status = "running"
    /\ out = Text("yy")
    /\ Bound(table, Text("B")) /\ ~Bound(stack[1].snap.table, Text("B"))

C24_Alphabet == {BS, "{", "}", "#", "%"}

\* C24: a step of the scan that stands on a backslash followed by a
\* character c of the escape alphabet is the escape step, and that step
\* appends c and nothing else to the sink of the running call, every other
\* buffer, the table and the stack left as they were, and leaves the
\* cursor right after c, so that c is not scanned.  \{\%\+\ expands to
\* {%\+\ and, A being bound or not, \\A{X}\}\# to \A{X}}#.
C24_EscapeEmitsOnlyChar ==
    /\ (/\ last.op \in ConstructOps \cup {"escape", "other", "trailing", "literal"}
        /\ Len(stack) >= last.depth
        /\ At(LastFrame.input, last.p) = BS
        /\ At(LastFrame.input, last.p + 1) \in C24_Alphabet) => last.op = "escape"
    /\ last.op = "escape" =>
          LET c == At(LastFrame.input, last.p + 1) IN
          /\ At(LastFrame.input, last.p) = BS /\ c \in C24_Alphabet
          /\ status = "running" /\ err = << >>
          /\ Len(stack) = last.depth
          /\ Top.p = last.p + 2
          /\ CurOut = Append(last.cur, c)
          /\ table = last.table
          /\ \A i \in 1..Len(stack) :
                 (engine = "global" \/ i # Top.sink) => stack[i].ob = last.output.bufs[i]
          /\ (engine = "global" \/ Top.sink # 0) => out = last.output.stdout
    /\ (input = Text("\\{\\%\\+\\") /\ status = "done") => out = Text("{%\\+\\")
    /\ (input = Text("\\\\A{X}\\}\\#") /\ status = "done") => out = Text("\\A{X}}#")
    /\ input = Text("\\def{A}{1}\\\\A{X}\\}\\#") =>
          /\ status # "exited" /\ last.op # "macro"
          /\ status = "done" => out = Text("\\A{X}}#")

\* A backslash has been emitted for \\ with the name of a bound macro and
\* an opening brace right after it.
C24_Witness ==
    /\ last.op = "escape" /\ status = "running"
    /\ At(LastFrame.input, last.p + 1) = BS
    /\ At(Top.input, Top.p) = "A" /\ At(Top.input, Top.p + 1) = "{"
    /\ Bound(table, Text("A"))
    /\ CurOut = << BS >>

\* Since the last step exactly one sink has received the characters chars,
\* the one the running call of that step wrote to.
C25_Appended(chars) ==
    \/ /\ out = last.cur \o chars /\ last.cur = last.output.stdout
       /\ g_outputBuffer = last.output.g
       /\ \A i \in 1..Len(stack) : stack[i].ob = last.output.bufs[i]
    \/ /\ g_outputBuffer = last.cur \o chars /\ last.cur = last.output.g
       /\ engine = "global"
       /\ out = last.output.stdout
       /\ \A i \in 1..Len(stack) : stack[i].ob = last.output.bufs[i]
    \/ /\ out = last.output.stdout /\ g_outputBuffer = last.output.g
       /\ \E k \in 1..Len(stack) :
             /\ stack[k].ob = last.cur \o chars /\ last.cur = last.output.bufs[k]
             /\ \A i \in 1..Len(stack) : i # k => stack[i].ob = last.output.bufs[i]

\* C25: a step of the scan that stands on a backslash followed by a
\* character c that is neither of the escape alphabet nor alphanumeric
\* appends the backslash and c to the sink of the running call and leaves
\* the cursor right after c; a step that stands on a backslash that ends
\* the text appends the backslash alone and the scan of that text is over:
\* the call returns (sink-based engine) or stands at the end of its text
\* (global-buffer engine).  Neither raises an error or touches the table,
\* and the caller goes on.  \{\%\+\ ends without an error;
\* \def{A}{\\}\A{}ok, whose instantiated text is one backslash, gives \ok.
C25_OtherBackslashLiteral ==
    /\ (/\ last.op \in ConstructOps \cup {"escape", "other", "trailing", "literal"}
        /\ Len(stack) >= last.depth
        /\ At(LastFrame.input, last.p) = BS
        /\ At(LastFrame.input, last.p + 1) \notin C24_Alphabet \cup AlnumChars) =>
           last.op = (IF At(LastFrame.input, last.p + 1) = NUL THEN "trailing" ELSE "other")
    /\ last.op = "other" =>
          LET c == At(LastFrame.input, last.p + 1) IN
          /\ At(LastFrame.input, last.p) = BS
          /\ c \notin C24_Alphabet \cup AlnumChars \cup {NUL}
          /\ status = "running" /\ err = << >>
          /\ Len(stack) = last.depth
          /\ Top.p = last.p + 2
          /\ C25_Appended(<< BS, c >>)
          /\ CurOut = last.cur \o << BS, c >>
          /\ table = last.table
    /\ last.op = "trailing" =>
          /\ status = "running" /\ err = << >>
          /\ table = last.table
          /\ C25_Appended(<< BS >>)
          /\ IF engine = "sink"
             THEN Len(stack) = last.depth - 1
             ELSE /\ Len(stack) = last.depth
                  /\ Top.p = last.p + 1 /\ Cur = NUL
                  /\ At(Top.input, last.p) = BS
    /\ (input = Text("\\{\\%\\+\\") /\ status = "done") =>
           last.op = "teardown" /\ err = << >>
    /\ (input = Text("\\def{A}{\\\\}\\A{}ok") /\ status = "done") => out = Text("\\ok")
    /\ (input = Text("\\def{A}{\\\\}\\A{}ok")) => status # "exited"

\* The text of a macro body ended with a backslash; the call that scanned
\* it is over and its caller has the continuation to expand.
C25_Witness ==
    /\ last.op = "trailing" /\ status = "running"
    /\ last.depth = 2 /\ last.p = 1
    /\ stack[1].pc \in {"call1", "call"}
    /\ Rest(stack[1].input, stack[1].p) = Text("ok")
    /\ C25_Appended(<< BS >>)

\* The frame has just consumed \include{PATH}.
C26_JustIncluded(fr, PATH) ==
    LET inc == Text("\\include{") \o PATH \o << "}" >> IN
    /\ fr.p > Len(inc)
    /\ SubSeq(fr.input, fr.p - Len(inc), fr.p - 1) = inc

\* The content of the files, comments removed.
C26_Stripped(PATH) ==
    IF PATH = Text("f") THEN Text("\\def{A}{inc}")
    ELSE Text("<\\ifdef{A}{\\A{}}{none}>")

\* C26: a step that dispatches \include{PATH} on a file that can be read
\* writes nothing and leaves the table alone, and calls the expansion of
\* the content of the file, its comments removed, into the sink of the
\* caller, with the table of the caller; the caller waits at the
\* continuation.  When the continuation of \include{f} is taken up, f
\* being the file that defines A as inc, A is bound to inc: the
\* continuation \A{X} expands inc, \ifdef{A}{yes}{no} gives yes.  The
\* file g, which tests A, sees a definition made before the \include.
C26_IncludeThenContinuation ==
    /\ (last.op = "include" /\ status = "running") =>
          LET PATH == last.args[1] IN
          /\ PATH \in {Text("f"), Text("g")}
          /\ Len(stack) = last.depth + 1
          /\ Top.role = "include" /\ Top.p = 1
          /\ Top.input = C26_Stripped(PATH)
          /\ Top.sink = LastFrame.sink
          /\ NothingWritten
          /\ table = last.table
          /\ LastFrame.pc \in {"call1", "call"}
          /\ C26_JustIncluded(LastFrame, PATH)
    /\ \A i \in 2..Len(stack) :
          (stack[i].role = "rest" /\ C26_JustIncluded(stack[i - 1], Text("f"))) =>
              lookup_macro(stack[i].snap.table, Text("A"))
                  = [found |-> TRUE, value |-> Text("inc")]
    /\ (/\ engine = "global" /\ last.op = "return" /\ stack # << >>
        /\ Len(stack) = last.depth - 1
        /\ Top.pc = "loop" /\ C26_JustIncluded(Top, Text("f"))) =>
           lookup_macro(table, Text("A")) = [found |-> TRUE, value |-> Text("inc")]
    /\ input = Text("\\include{f}\\A{X}") =>
          /\ status # "exited"
          /\ last.op = "macro" => Top.input = Text("inc")
    /\ (input = Text("\\include{f}\\ifdef{A}{yes}{no}") /\ status = "done") =>
          out = Text("yes")
    /\ (input = Text("\\def{A}{1}\\include{g}\\include{h}") /\ status = "exited") =>
          /\ err = << "FileNotFound" >>
          /\ CurOut = Text("<1>")

\* The continuation of \include{f} has invoked the macro the file
\* defined.
C26_Witness ==
    /\ input = Text("\\include{f}\\A{X}")
    /\ last.op = "macro" /\ last.name = Text("A") /\ status = "running"
    /\ C26_JustIncluded([LastFrame EXCEPT !.p = last.p], Text("f"))
         \/ (LastFrame.role = "rest" /\ last.p = 1)
    /\ Top.input = Text("inc")

\* C27: in the global-buffer engine a \def whose two arguments were read
\* and whose NAME is one of the six builtin names does nothing but consume
\* \def{NAME}{VALUE}: no diagnostic, nothing written, the table as it was,
\* no call made, the cursor right after the closing brace of VALUE.  The
\* same for each of the six names: after \def{NAME}{x} the table is still
\* empty and the text that follows is expanded, \if{x}{T}{E} giving T.
C27_BuiltinDefIgnored ==
    /\ (/\ engine = "global" /\ last.op = "def" /\ last.res = << "ok", "ok" >>
        /\ last.args[1] \in BuiltinNames) =>
           /\ status = "running" /\ err = << >> /\ ~g_errorOccurred
           /\ table = last.table
           /\ NothingWritten
           /\ Len(stack) = last.depth
           /\ IsPrefix(Text("\\def"), Consumed)
           /\ C13_IsArgs(Consumed, 5, last.args)
    /\ \A NAME \in BuiltinNames :
          (/\ engine = "global"
           /\ input = Text("\\def{") \o NAME \o Text("}{x}\\if{x}{T}{E}")) =>
              /\ table = << >>
              /\ status # "exited"
              /\ status = "done" => out = Text("T")

\* A \def of the name include has been passed over with a macro in the
\* table.
C27_Witness ==
    /\ engine = "global" /\ last.op = "def" /\ status = "running"
    /\ last.args = << Text("include"), Text("x") >>
    /\ Len(table) = 1 /\ table = last.table
    /\ Cur = NUL

\* The branch an \if or \ifdef step with arguments args chooses, given the
\* table tbl it ran with: the index of the argument.
C28_Chosen(op, args, tbl) ==
    IF op = "if"
    THEN (IF args[1] = << >> THEN 3 ELSE 2)
    ELSE (IF \E i \in 1..Len(tbl) : tbl[i].name = args[1] THEN 2 ELSE 3)

\* C28: an \if or \ifdef step whose three arguments were read calls the
\* expansion of the chosen branch and of nothing else, writes nothing,
\* leaves the table alone and raises no error, whatever the other branch
\* holds (the one error of such a step is the invalid NAME of an \ifdef);
\* a step that could not read its arguments fails with UnbalancedBraces
\* or MissingArgument.  The runs whose unchosen branch holds a \def, an
\* \undef, an undefined macro, an invalid name and a construct without
\* arguments end without an error, with the output of the chosen branch
\* and the table the text outside the conditional made; no step of them
\* is a \def, \undef or macro invocation of the unchosen branch.
C28_UnchosenBranchInert ==
    /\ (last.op \in {"if", "ifdef"} /\ last.res = << "ok", "ok", "ok" >>) =>
          IF last.op = "ifdef" /\ ~AllAlnum(last.args[1])
          THEN status = "exited" /\ err = << "InvalidMacroName" >>
                   /\ table = last.table /\ Len(stack) = last.depth
          ELSE /\ status = "running" /\ err = << >>
               /\ table = last.table
               /\ NothingWritten
               /\ Len(stack) = last.depth + 1
               /\ Top.input = last.args[C28_Chosen(last.op, last.args, last.table)]
               /\ Top.p = 1 /\ Top.pc = "loop"
    /\ (last.op \in {"if", "ifdef"} /\ last.res # << "ok", "ok", "ok" >>) =>
          /\ status = "exited"
          /\ err \in {<< "UnbalancedBraces" >>, << "MissingArgument" >>}
          /\ table = last.table
    /\ input = Text("\\if{}{\\def{B}{t}\\U{}\\def{-}{}\\undef}{E}") =>
          /\ status # "exited" /\ table = << >>
          /\ last.op \notin {"def", "undef", "macro"}
          /\ IsPrefix(CurOut, Text("E")) /\ IsPrefix(out, Text("E"))
          /\ status = "done" => out = Text("E")
    /\ input = Text("\\ifdef{Q}{\\undef{Q}\\def{Q}}{n}") =>
          /\ status # "exited" /\ table = << >>
          /\ last.op \notin {"def", "undef", "macro"}
          /\ status = "done" => out = Text("n")
    /\ input = Text("\\def{A}{1}\\if{x}{T}{\\U{}\\def{A}{e}}") =>
          /\ status # "exited"
          /\ last.op # "macro" /\ last.op # "undef"
          /\ last.op = "def" => last.args = << Text("A"), Text("1") >>
          /\ status = "expanded" => table = << [name |-> Text("A"), value |-> Text("1")] >>
          /\ status = "done" => out = Text("T")

\* ELSE has been chosen while THEN holds a \def, an undefined macro, an
\* invalid name and an \undef without argument.
C28_Witness ==
    /\ last.op = "if" /\ status = "running"
    /\ last.args[2] = Text("\\def{B}{t}\\U{}\\def{-}{}\\undef")
    /\ Top.input = Text("E") /\ Top.role = "branch"
    /\ table = << >>

\* C29: in the global-buffer engine, a call of expand_string_fully made
\* for the AFTER operand holds, as long as it is active, the content the
\* global buffer had when it was called; when it returns, the string it
\* returns is what the sub-expansion wrote to the temporary buffer, and
\* the call for BEFORE that follows holds the same saved content and
\* starts on an empty buffer; when that one returns the global buffer is
\* the saved content, nothing added and nothing lost, whatever the depth.
\* In ab\expandafter{<}{c\expandafter{d}{e}}! the outer calls hold ab and
\* the inner ones c, and the run ends with the output ab<cde!.
C29_BufferRestored ==
    engine = "global" =>
        /\ \A k \in 2..Len(stack) :
              (stack[k].fn = "expand_string_fully" /\ stack[k - 1].pc = "ea_after") =>
                  /\ stack[k].ob = stack[k].snap.output.g
                  /\ k < Len(stack) => stack[k + 1].snap.output.g = stack[k].ob
        /\ last.op = "expandedAfter" =>
              /\ Len(stack) = last.depth + 1
              /\ stack[last.depth].fn = "expand_string_fully"
              /\ stack[last.depth].ob = last.output.bufs[last.depth]
              /\ stack[last.depth - 1].after = last.output.g
              /\ g_outputBuffer = << >>
        /\ last.op = "combine" =>
              /\ Len(stack) = last.depth
              /\ g_outputBuffer = last.output.bufs[last.depth]
              /\ Top.input = last.output.g \o stack[last.depth - 1].after
              /\ \A i \in 1..(last.depth - 1) : stack[i].ob = last.output.bufs[i]
        /\ input = Text("ab\\expandafter{<}{c\\expandafter{d}{e}}!") =>
              /\ \A k \in 1..Len(stack) :
                    stack[k].fn = "expand_string_fully" =>
                        stack[k].ob = (IF k = 2 THEN Text("ab") ELSE Text("c"))
              /\ last.op = "combine" =>
                    g_outputBuffer = (IF last.depth = 2 THEN Text("ab") ELSE Text("c"))
              /\ status # "exited"
              /\ status = "done" => out = Text("ab<cde!")

\* The inner \expandafter of a nested pair has got back the buffer that
\* held the text written before it.
C29_Witness ==
    /\ engine = "global" /\ last.op = "combine" /\ status = "running"
    /\ last.depth = 4
    /\ stack[2].fn = "expand_string_fully" /\ stack[2].ob = Text("ab")
    /\ g_outputBuffer = Text("c")
    /\ Top.input = Text("de")

\* C30 (as stated): a run in which the macro table stays empty, no \def
\* is executed and no \include is executed eventually ends, with its
\* output written or with a diagnostic.
C30_MacroFreeTerminates ==
    [](table = << >> /\ last.op \notin {"def", "include"})
        => <>(status = "done" \/ (status = "exited" /\ err # << >>))

====
